---- MODULE Spec2Model ----
(***************************************************************************)
(* A model of the ACC matching scripts of egill/Avero:                     *)
(*   - scripts/acc-replay-analysis.py: merge_event_streams and             *)
(*     replay_and_evaluate (the Occupancy Replayer);                       *)
(*   - scripts/acc-group-eval.py: build_raw_sessions, sessions_overlap,    *)
(*     merge_sessions (Session Builder and Session Merger);                *)
(*   - scripts/acc-exit-window-report.py: evaluate_shared_key (the Group   *)
(*     Candidate Evaluator).                                               *)
(* Timestamps of the replayer are integer milliseconds; timestamps of the  *)
(* session scripts are integer seconds (dwell_ms = 1000 * seconds).        *)
(***************************************************************************)
EXTENDS Integers, Sequences, FiniteSets, TLC

VARIABLES
    \* ---- Occupancy Replayer (acc-replay-analysis.py) ----
    xovis_iter,     \* the sensor event sequence handed to merge_event_streams
    acc_events,     \* the payment list handed to merge_event_streams
    xi, ai,         \* how many events the merge has taken from each source
    consumed,       \* history: the merged events replayed so far, in order
    occupancy,      \* zone_id -> set of track ids
    recent_exits,   \* zone_id -> sequence of RecentExit
    results,        \* list of AccResult
    stats,          \* the running counters
    \* ---- Session Merger (acc-group-eval.py) ----
    raw_sessions,       \* one person's sessions, as build_raw_sessions returns them
    gap_s,              \* the merge gap handed to merge_sessions
    merged_sessions,    \* merge_sessions(raw_sessions, gap_s)
    remerged_sessions,  \* merge_sessions(merged_sessions, gap_s)
    merge_pc,           \* "idle", "raw", "merged" or "remerged"
    \* ---- Group Candidate Evaluator (acc-exit-window-report.py) ----
    acc_ts,             \* the payment time of the shared key
    acc_zone,           \* the POS zone of the shared key
    args,               \* the command line options evaluate_shared_key reads
    member_k,           \* how many members the present loops have passed
    member_sessions,    \* raw_sessions.get(pid, []) of the member whose turn it is
    present_raw,        \* present_raw of evaluate_shared_key
    present_merged,     \* present_merged of evaluate_shared_key
    evaluation,         \* the dict evaluate_shared_key returns
    group_pc,           \* "idle", "members", "present" or "done"
    \* ---- Session Builder (acc-group-eval.py, acc-person2-review.py) ----
    journey_events,     \* the events of one person's journey, in file order
    built_sessions,     \* build_raw_sessions(journey_events)
    built_intervals,    \* build_intervals of the same zone events, for one track
    merged_intervals,   \* merge_intervals of each track's built intervals
    build_pc,           \* "idle", "events", "sessions", "intervals" or "built"
    \* ---- Retrospective Matcher (acc-person2-review.py) ----
    cand_item,          \* the (tid, intervals) item of merged_by_track being scanned
    cand_seen,          \* the track ids whose items have been scanned
    cand_zone,          \* zone_id handed to candidates_at
    cand_time,          \* acc_time handed to candidates_at
    cand_result,        \* the list candidates_at returns
    cand_pc,            \* "idle", "loop" or "returned"
    \* ---- Log loaders (acc-replay-analysis.py, acc-person2-review.py) ----
    load_fn,            \* the loader that is reading
    load_lines,         \* the lines of the log file being read
    load_i,             \* how many lines the loader has read
    loaded,             \* the events loaded so far
    load_pc,            \* "idle", "reading", "done" or "raised"
    \* ---- Who-was-there review (acc-person2-review.py main, --who-pos/--who-time) ----
    who_zone_events,    \* zone_events: the sensor events load_zone_events returned
    who_zone,           \* zone_id of --who-pos
    who_time,           \* acc_time of --who-time
    cands_initial,      \* the initial candidates, as a set
    cands_corrected,    \* the corrected candidates, as a set
    who_pc,             \* "idle", "loaded" or "reported"
    \* ---- the variants of acc-group-eval.py ----
    eval_acc_events,    \* acc_events: the payments, one dict per payment key
    eval_args,          \* args: the command line of acc-group-eval.py
    raw_sessions_by_person, \* pid -> build_raw_sessions of its journey
    merged_sessions_by_person, \* pid -> merge_sessions of its raw sessions
    tests,              \* the results of evaluate_variant, in the order of main
    eval_pc,            \* "sessions", "variants" or "done"
    \* ---- the interval functions called on their own ----
    fn_name,            \* the function called: "sessions_overlap" or "other_pos_duration_s"
    fn_args,            \* the arguments of the call
    fn_result,          \* what the call returned
    fn_pc               \* "called" or "returned"

replay_vars == <<xovis_iter, acc_events, xi, ai, consumed,
                 occupancy, recent_exits, results, stats>>

session_vars == <<raw_sessions, gap_s, merged_sessions, remerged_sessions, merge_pc>>

group_vars == <<acc_ts, acc_zone, args, member_k, member_sessions, present_raw, present_merged,
                evaluation, group_pc>>

build_vars == <<journey_events, built_sessions, built_intervals, merged_intervals, build_pc>>

cand_vars == <<cand_item, cand_seen, cand_zone, cand_time, cand_result, cand_pc>>

load_vars == <<load_fn, load_lines, load_i, loaded, load_pc>>

who_vars == <<who_zone_events, who_zone, who_time, cands_initial, cands_corrected, who_pc>>

eval_vars == <<eval_acc_events, eval_args, raw_sessions_by_person, merged_sessions_by_person, tests, eval_pc>>

fn_vars == <<fn_name, fn_args, fn_result, fn_pc>>

vars == <<replay_vars, session_vars, group_vars, build_vars, cand_vars, load_vars, who_vars, eval_vars, fn_vars>>

\* what each component leaves alone
not_replay_vars == <<session_vars, group_vars, build_vars, cand_vars, load_vars, who_vars, eval_vars, fn_vars>>
not_session_vars == <<replay_vars, group_vars, build_vars, cand_vars, load_vars, who_vars, eval_vars, fn_vars>>
not_group_vars == <<replay_vars, session_vars, build_vars, cand_vars, load_vars, who_vars, eval_vars, fn_vars>>
not_build_vars == <<replay_vars, session_vars, group_vars, cand_vars, load_vars, who_vars, eval_vars, fn_vars>>
not_cand_vars == <<replay_vars, session_vars, group_vars, build_vars, load_vars, who_vars, eval_vars, fn_vars>>
not_load_vars == <<replay_vars, session_vars, group_vars, build_vars, cand_vars, who_vars, eval_vars, fn_vars>>
not_who_vars == <<replay_vars, session_vars, group_vars, build_vars, cand_vars, load_vars, eval_vars, fn_vars>>
not_eval_vars == <<replay_vars, session_vars, group_vars, build_vars, cand_vars, load_vars, who_vars, fn_vars>>
not_fn_vars == <<replay_vars, session_vars, group_vars, build_vars, cand_vars, load_vars, who_vars, eval_vars>>

(***************************************************************************)
(* Bounds of the model.                                                    *)
(***************************************************************************)
MaxTs == 2          \* replayer timestamps range over 0..MaxTs
MaxEvents == 3      \* sensor events plus payments of one replay
MaxSessionTs == 1   \* session timestamps range over 0..MaxSessionTs (seconds)
MaxSessions == 4    \* sessions of one person handed to merge_sessions
MaxGap == 1         \* the merge gap ranges over 0..MaxGap (seconds)
MaxMemberSessions == 2  \* raw sessions of one member of a shared payment key
MaxJourneyEvents == 4   \* events of one journey handed to the session builders
MaxCandTs == 2      \* interval times of the retrospective matcher range over 0..MaxCandTs
MaxIntervals == 2   \* merged intervals of one track
MaxLines == 2       \* lines of one log file
MaxLoadTs == 1      \* timestamps in a log line range over 0..MaxLoadTs
MaxWhoTs == 1       \* frame times and payment times of the review range over 0..MaxWhoTs
MaxCrowdTs == 0       \* the times of the busy-till replay range over 0..MaxCrowdTs
MaxCrowdEvents == 4   \* sensor events and payments of the busy-till replay
MaxQuietEvents == 4   \* sensor events and payments of the quiet-spell replay
MaxWhoEvents == 2   \* sensor events of the log under review
grace_ms == 1               \* --grace-ms, scaled to the model's timestamps
merge_window_ms == 1        \* --merge-window-ms, scaled to the model's timestamps
lookback_ms == 2            \* --lookback-ms, scaled
review_exit_grace_ms == 1   \* --exit-grace-ms of acc-person2-review.py, scaled

Tracks == {1, 2}
ReplayTimes == 0 .. MaxTs

(***************************************************************************)
(* Configuration handed to replay_and_evaluate by main().                  *)
(***************************************************************************)
\* pos_zone_ids: the zones whose occupancy is tracked
pos_zone_ids == {1, 2}
\* a geometry id the sensor reports that is not a POS zone
NonPosZone == {3}
\* pos_name_to_zone_id: POS zone name -> geometry id ("POS_9" is not in it)
pos_name_to_zone_id == [n \in {"POS_1", "POS_2"} |-> IF n = "POS_1" THEN 1 ELSE 2]
PosZoneNames == {"POS_1", "POS_2", "POS_9"}
\* GROUP_ID_BASE of acc-person2-review.py: track ids from it on are groups
\* (2^31 in the code), scaled to the model's track ids
GROUP_ID_BASE == 3
\* exit_grace_ms (--exit-grace-ms), scaled to the model's timestamps
exit_grace_ms == 1
\* the length of a zone's recent-exit list above which it is pruned (100 in
\* the code), scaled to the model's event counts
PruneThreshold == 1

(***************************************************************************)
(* Sequence helpers.                                                       *)
(***************************************************************************)
Range(s) == {s[i] : i \in 1 .. Len(s)}

\* the orders in which the elements of a set may be iterated
IterationOrders(S) ==
    {s \in [1 .. Cardinality(S) -> S] : \A i, j \in 1 .. Cardinality(S) : i # j => s[i] # s[j]}

RECURSIVE InsertSorted(_, _)
InsertSorted(s, x) ==
    IF s = <<>> THEN <<x>>
    ELSE IF x < Head(s) THEN <<x>> \o s
    ELSE <<Head(s)>> \o InsertSorted(Tail(s), x)

\* mutant: the sequence is left in iteration order
sorted_Unsorted(s) == s

\* Python's sorted() on a sequence of integers
RECURSIVE sorted(_)
sorted(s) == IF s = <<>> THEN <<>> ELSE InsertSorted(sorted(Tail(s)), Head(s))

(***************************************************************************)
(* Events.                                                                 *)
(***************************************************************************)
\* UnifiedEvent of a sensor: track_id and zone_id set, ACC fields None (0 / "")
XovisEvent(ts, ty, tr, z) ==
    [ts_ms |-> ts, source |-> "xovis", event_type |-> ty, track_id |-> tr,
     zone_id |-> z, receipt_id |-> 0, pos_zone |-> ""]

\* UnifiedEvent of a payment: track_id and zone_id None (0)
AccEvent(ts, rid, pz) ==
    [ts_ms |-> ts, source |-> "acc", event_type |-> "ACC", track_id |-> 0,
     zone_id |-> 0, receipt_id |-> rid, pos_zone |-> pz]

\* the sensor events of the model: every ENTRY/EXIT of a track at a POS zone,
\* and one event at a zone that is not a POS zone
XovisEvents ==
    {XovisEvent(ts, ty, tr, z) :
        ts \in ReplayTimes, ty \in {"ZONE_ENTRY", "ZONE_EXIT"}, tr \in Tracks, z \in pos_zone_ids}
    \cup {XovisEvent(ts, "ZONE_ENTRY", 1, z) : ts \in ReplayTimes, z \in NonPosZone}

\* a sequence of events in non-decreasing timestamp order
SortedByTs(s) == \A i \in 1 .. (Len(s) - 1) : s[i].ts_ms <= s[i + 1].ts_ms

\* the timestamp-sorted sensor sequences of length n
XovisSeqs(n) == {s \in [1 .. n -> XovisEvents] : SortedByTs(s)}

\* the timestamp-sorted payment lists of length n (load_acc_events sorts by
\* ts_ms); the receipt id of a payment is its position in the list
AccSeqs(n) ==
    {s \in {[i \in 1 .. n |-> AccEvent(f[i][1], i, f[i][2])] :
                f \in [1 .. n -> ReplayTimes \X PosZoneNames]} : SortedByTs(s)}

(***************************************************************************)
(* merge_event_streams: heapq.merge of the two keyed sources.              *)
(***************************************************************************)
\* mutant: payments sort before sensor events on a tie
make_key_AccFirst(event) == <<event.ts_ms, IF event.source = "xovis" THEN 1 ELSE 0>>

\* make_key: (ts_ms, 0 for xovis, 1 for acc)
make_key(event) == <<event.ts_ms, IF event.source = "xovis" THEN 0 ELSE 1>>

\* mutant: the keys are compared by source alone
KeyLeq_SourceOnly(k1, k2) == k1[2] <= k2[2]

\* tuple comparison k1 <= k2
KeyLeq(k1, k2) == k1[1] < k2[1] \/ (k1[1] = k2[1] /\ k1[2] <= k2[2])

XovisLeft == xi < Len(xovis_iter)
AccLeft == ai < Len(acc_events)
XovisHead == xovis_iter[xi + 1]
AccHead == acc_events[ai + 1]

\* heapq.merge yields the head with the smaller key; on equal keys the first
\* iterable (the sensor stream) wins
MergeTakesXovis == XovisLeft /\ (AccLeft => KeyLeq(make_key(XovisHead), make_key(AccHead)))
MergeTakesAcc == AccLeft /\ ~MergeTakesXovis

(***************************************************************************)
(* replay_and_evaluate.                                                    *)
(***************************************************************************)
Buckets == {"person_0", "person_1", "person_2", "person_3+"}
MatchTypes == {"current", "grace", "none"}

StatsInit ==
    [total_zone_events |-> 0, total_acc_events |-> 0,
     person_counts |-> [b \in Buckets |-> 0],
     match_types |-> [m \in MatchTypes |-> 0],
     by_pos |-> [n \in PosZoneNames |-> [total |-> 0, person_0 |-> 0, grace_matches |-> 0]]]

\* mutant: the snapshot also holds the tracks whose ENTRY is still to come
OccupancyGet_Peek(occ, z) ==
    (IF z \in DOMAIN occ THEN occ[z] ELSE {})
        \cup {xovis_iter[k].track_id : k \in {m \in (xi + 1) .. Len(xovis_iter) :
                  xovis_iter[m].event_type = "ZONE_ENTRY" /\ xovis_iter[m].zone_id = z}}

\* occupancy.get(zone_id, set())
OccupancyGet(occ, z) == IF z \in DOMAIN occ THEN occ[z] ELSE {}
\* recent_exits.get(zone_id, [])
ExitsGet(rex, z) == IF z \in DOMAIN rex THEN rex[z] ELSE <<>>

\* occupancy[event.zone_id].add(event.track_id)
OccupancyAfterEntry(occ, z, tr) == [occ EXCEPT ![z] = @ \cup {tr}]

\* mutant: an exit leaves the occupancy as it is
OccupancyAfterExit_NoDiscard(occ, z, tr) == occ

\* occupancy[event.zone_id].discard(event.track_id)
OccupancyAfterExit(occ, z, tr) == [occ EXCEPT ![z] = @ \ {tr}]

\* recent_exits[event.zone_id].append(RecentExit(track_id, exit_time))
ExitsAfterExit(rex, z, tr, ts) ==
    [rex EXCEPT ![z] = Append(@, [track_id |-> tr, exit_time |-> ts])]

\* mutant: the window excludes its edge
InGrace_Exclusive(ex, cutoff) == ex.exit_time > cutoff

\* the test of one recent exit against the cutoff
InGrace(ex, cutoff) == ex.exit_time >= cutoff

\* mutant: the current candidates are not taken out
GraceSet_KeepCandidates(zone_exits, cutoff, candidateSet) ==
    {zone_exits[i].track_id : i \in {j \in 1 .. Len(zone_exits) : InGrace(zone_exits[j], cutoff)}}

\* the track ids of the exits of the zone within the grace window, minus the
\* current candidates: set(grace_candidates) - set(candidates)
GraceSet(zone_exits, cutoff, candidateSet) ==
    {zone_exits[i].track_id : i \in {j \in 1 .. Len(zone_exits) : InGrace(zone_exits[j], cutoff)}}
        \ candidateSet

\* mutant: a recent exit wins over the current occupancy
MatchType_GraceFirst(person_count, grace_candidates) ==
    IF grace_candidates # <<>> THEN "grace"
    ELSE IF person_count > 0 THEN "current"
    ELSE "none"

\* match_type of a payment
MatchType(person_count, grace_candidates) ==
    IF person_count > 0 THEN "current"
    ELSE IF grace_candidates # <<>> THEN "grace"
    ELSE "none"

\* mutant: three or more persons are counted as two
Bucket_NoCap(person_count) ==
    IF person_count >= 2 THEN "person_2"
    ELSE IF person_count = 1 THEN "person_1"
    ELSE "person_0"

\* bucket of the count
Bucket(person_count) ==
    IF person_count >= 3 THEN "person_3+"
    ELSE IF person_count = 2 THEN "person_2"
    ELSE IF person_count = 1 THEN "person_1"
    ELSE "person_0"

\* the AccResult of a payment
AccResult(event, zone_id, candidates, grace_candidates) ==
    [receipt_id |-> event.receipt_id, ts_ms |-> event.ts_ms, pos_zone |-> event.pos_zone,
     zone_id |-> zone_id, candidates |-> candidates, person_count |-> Len(candidates),
     matched |-> (MatchType(Len(candidates), grace_candidates) # "none"),
     grace_candidates |-> grace_candidates,
     match_type |-> MatchType(Len(candidates), grace_candidates)]

\* the counters after a payment with a resolved zone
StatsAfterAcc(st, event, person_count, match_type) ==
    [st EXCEPT
        !.total_acc_events = @ + 1,
        !.person_counts[Bucket(person_count)] = @ + 1,
        !.match_types[match_type] = @ + 1,
        !.by_pos[event.pos_zone] =
            [total |-> @.total + 1,
             person_0 |-> @.person_0 + (IF person_count = 0 THEN 1 ELSE 0),
             grace_matches |-> @.grace_matches + (IF match_type = "grace" THEN 1 ELSE 0)]]

\* mutant: the pruning drops the exits on the edge of the grace window
PruneExits_Exclusive(zone_exits, cutoff) ==
    IF Len(zone_exits) > PruneThreshold
    THEN SelectSeq(zone_exits, LAMBDA ex : ex.exit_time > cutoff)
    ELSE zone_exits

\* "Prune old exits to prevent memory growth"
PruneExits(zone_exits, cutoff) ==
    IF Len(zone_exits) > PruneThreshold
    THEN SelectSeq(zone_exits, LAMBDA ex : ex.exit_time >= cutoff)
    ELSE zone_exits

\* the orders in which the occupancy of the payment's zone may be iterated
CandidateOrders(st, event) ==
    IterationOrders(OccupancyGet(st.occupancy, pos_name_to_zone_id[event.pos_zone]))

\* the orders in which set(grace_candidates) - set(candidates) may be iterated
GraceOrders(st, event) ==
    LET zone_id == pos_name_to_zone_id[event.pos_zone] IN
    IterationOrders(GraceSet(ExitsGet(st.recent_exits, zone_id),
                             event.ts_ms - exit_grace_ms,
                             OccupancyGet(st.occupancy, zone_id)))

\* the branch of the loop body for a payment whose zone resolves; corder and
\* gorder are the orders in which the two sets happen to be iterated
EvaluateAcc(st, event, corder, gorder) ==
    LET zone_id == pos_name_to_zone_id[event.pos_zone]
        candidates == sorted(corder)
        cutoff == event.ts_ms - exit_grace_ms
        zone_exits == ExitsGet(st.recent_exits, zone_id)
        grace_candidates == sorted(gorder)
        r == AccResult(event, zone_id, candidates, grace_candidates)
    IN [occupancy |-> st.occupancy,
        recent_exits |-> IF zone_id \in DOMAIN st.recent_exits
                         THEN [st.recent_exits EXCEPT ![zone_id] = PruneExits(zone_exits, cutoff)]
                         ELSE st.recent_exits,
        results |-> Append(st.results, r),
        stats |-> StatsAfterAcc(st.stats, event, r.person_count, r.match_type)]

\* one iteration of "for event in event_stream"
ReplayEvent(st, event, corder, gorder) ==
    IF event.source = "xovis"
    THEN IF event.zone_id \notin pos_zone_ids THEN st
         ELSE IF event.event_type = "ZONE_ENTRY"
         THEN [st EXCEPT
                 !.occupancy = OccupancyAfterEntry(@, event.zone_id, event.track_id),
                 !.stats.total_zone_events = @ + 1]
         ELSE [st EXCEPT
                 !.occupancy = OccupancyAfterExit(@, event.zone_id, event.track_id),
                 !.recent_exits = ExitsAfterExit(@, event.zone_id, event.track_id, event.ts_ms),
                 !.stats.total_zone_events = @ + 1]
    ELSE IF event.pos_zone \notin DOMAIN pos_name_to_zone_id
         THEN [st EXCEPT !.stats.total_acc_events = @ + 1]
         ELSE EvaluateAcc(st, event, corder, gorder)

\* the local state of replay_and_evaluate
ReplayState ==
    [occupancy |-> occupancy, recent_exits |-> recent_exits,
     results |-> results, stats |-> stats]

ReplayStateInit ==
    [occupancy |-> [z \in pos_zone_ids |-> {}],
     recent_exits |-> [z \in pos_zone_ids |-> <<>>],
     results |-> <<>>, stats |-> StatsInit]

\* the replayer has not been given anything
ReplayIdle ==
    /\ xovis_iter = <<>>
    /\ acc_events = <<>>
    /\ xi = 0
    /\ ai = 0
    /\ consumed = <<>>
    /\ occupancy = ReplayStateInit.occupancy
    /\ recent_exits = ReplayStateInit.recent_exits
    /\ results = ReplayStateInit.results
    /\ stats = ReplayStateInit.stats

\* the session merger has not been given anything
SessionsIdle ==
    /\ raw_sessions = <<>>
    /\ gap_s = 0
    /\ merged_sessions = <<>>
    /\ remerged_sessions = <<>>
    /\ merge_pc = "idle"

\* the group evaluator has not been given anything
GroupIdle ==
    /\ acc_ts = 0
    /\ acc_zone = ""
    /\ args = [min_dwell_ms |-> 0, entry_spread_s |-> 0, other_pos_window_s |-> 0,
               other_pos_min_s |-> 0, merge_gap_s |-> 0]
    /\ member_k = 0
    /\ member_sessions = <<>>
    /\ present_raw = <<>>
    /\ present_merged = <<>>
    /\ evaluation = <<>>
    /\ group_pc = "idle"

\* the session builders have not been given anything
BuildIdle ==
    /\ journey_events = <<>>
    /\ built_sessions = <<>>
    /\ built_intervals = <<>>
    /\ merged_intervals = <<>>
    /\ build_pc = "idle"

\* candidates_at has not been called
CandIdle ==
    /\ cand_item = <<>>
    /\ cand_seen = {}
    /\ cand_zone = 0
    /\ cand_time = 0
    /\ cand_result = <<>>
    /\ cand_pc = "idle"

\* no log is being read
LoadIdle ==
    /\ load_fn = ""
    /\ load_lines = <<>>
    /\ load_i = 0
    /\ loaded = <<>>
    /\ load_pc = "idle"

\* the review has not been run
WhoIdle ==
    /\ who_zone_events = <<>>
    /\ who_zone = 0
    /\ who_time = 0
    /\ cands_initial = {}
    /\ cands_corrected = {}
    /\ who_pc = "idle"

\* main of acc-group-eval.py has not started
EvalIdle ==
    /\ eval_acc_events = <<>>
    /\ eval_args = <<>>
    /\ raw_sessions_by_person = <<>>
    /\ merged_sessions_by_person = <<>>
    /\ tests = <<>>
    /\ eval_pc = "idle"

\* no interval function has been called
FnIdle ==
    /\ fn_name = ""
    /\ fn_args = <<>>
    /\ fn_result = <<>>
    /\ fn_pc = "idle"

NotReplayIdle == SessionsIdle /\ GroupIdle /\ BuildIdle /\ CandIdle /\ LoadIdle /\ WhoIdle /\ EvalIdle /\ FnIdle
NotSessionsIdle == ReplayIdle /\ GroupIdle /\ BuildIdle /\ CandIdle /\ LoadIdle /\ WhoIdle /\ EvalIdle /\ FnIdle
NotGroupIdle == ReplayIdle /\ SessionsIdle /\ BuildIdle /\ CandIdle /\ LoadIdle /\ WhoIdle /\ EvalIdle /\ FnIdle
NotBuildIdle == ReplayIdle /\ SessionsIdle /\ GroupIdle /\ CandIdle /\ LoadIdle /\ WhoIdle /\ EvalIdle /\ FnIdle
NotCandIdle == ReplayIdle /\ SessionsIdle /\ GroupIdle /\ BuildIdle /\ LoadIdle /\ WhoIdle /\ EvalIdle /\ FnIdle
NotLoadIdle == ReplayIdle /\ SessionsIdle /\ GroupIdle /\ BuildIdle /\ CandIdle /\ WhoIdle /\ EvalIdle /\ FnIdle
NotWhoIdle == ReplayIdle /\ SessionsIdle /\ GroupIdle /\ BuildIdle /\ CandIdle /\ LoadIdle /\ EvalIdle /\ FnIdle
NotEvalIdle == ReplayIdle /\ SessionsIdle /\ GroupIdle /\ BuildIdle /\ CandIdle /\ WhoIdle /\ LoadIdle /\ FnIdle
NotFnIdle == ReplayIdle /\ SessionsIdle /\ GroupIdle /\ BuildIdle /\ CandIdle /\ WhoIdle /\ EvalIdle /\ LoadIdle

ReplayInit ==
    /\ NotReplayIdle
    /\ \E n \in 0 .. MaxEvents : \E m \in 0 .. (MaxEvents - n) :
          /\ xovis_iter \in XovisSeqs(n)
          /\ acc_events \in AccSeqs(m)
    /\ xi = 0
    /\ ai = 0
    /\ consumed = <<>>
    /\ occupancy = ReplayStateInit.occupancy
    /\ recent_exits = ReplayStateInit.recent_exits
    /\ results = ReplayStateInit.results
    /\ stats = ReplayStateInit.stats

\* the replay loop takes event from the merged stream and runs its body on it
Replayed(event, corder, gorder) ==
    LET st == ReplayEvent(ReplayState, event, corder, gorder) IN
    /\ consumed' = Append(consumed, event)
    /\ occupancy' = st.occupancy
    /\ recent_exits' = st.recent_exits
    /\ results' = st.results
    /\ stats' = st.stats
    /\ UNCHANGED <<xovis_iter, acc_events>>
    /\ UNCHANGED not_replay_vars

\* a sensor event at a zone that is not a POS zone: skipped
ReplaySkipZone ==
    /\ MergeTakesXovis
    /\ XovisHead.zone_id \notin pos_zone_ids
    /\ Replayed(XovisHead, <<>>, <<>>)
    /\ xi' = xi + 1
    /\ ai' = ai

ReplayZoneEntry ==
    /\ MergeTakesXovis
    /\ XovisHead.zone_id \in pos_zone_ids
    /\ XovisHead.event_type = "ZONE_ENTRY"
    /\ Replayed(XovisHead, <<>>, <<>>)
    /\ xi' = xi + 1
    /\ ai' = ai

ReplayZoneExit ==
    /\ MergeTakesXovis
    /\ XovisHead.zone_id \in pos_zone_ids
    /\ XovisHead.event_type = "ZONE_EXIT"
    /\ Replayed(XovisHead, <<>>, <<>>)
    /\ xi' = xi + 1
    /\ ai' = ai

\* a payment whose pos_zone is not in pos_name_to_zone_id: counted, then skipped
ReplayAccUnknownZone ==
    /\ MergeTakesAcc
    /\ AccHead.pos_zone \notin DOMAIN pos_name_to_zone_id
    /\ Replayed(AccHead, <<>>, <<>>)
    /\ ai' = ai + 1
    /\ xi' = xi

\* a payment whose zone resolves: evaluated against the occupancy
ReplayAcc ==
    /\ MergeTakesAcc
    /\ AccHead.pos_zone \in DOMAIN pos_name_to_zone_id
    /\ \E corder \in CandidateOrders(ReplayState, AccHead) :
       \E gorder \in GraceOrders(ReplayState, AccHead) :
          Replayed(AccHead, corder, gorder)
    /\ ai' = ai + 1
    /\ xi' = xi

ReplayNext ==
    \/ ReplaySkipZone
    \/ ReplayZoneEntry
    \/ ReplayZoneExit
    \/ ReplayAccUnknownZone
    \/ ReplayAcc

(***************************************************************************)
(* The replay of a merged sequence from the start, with nothing after it.  *)
(***************************************************************************)
\* some order among the possible ones
AnyOrder(orders) == CHOOSE o \in orders : TRUE

RECURSIVE ReplayAll(_)
ReplayAll(events) ==
    IF events = <<>> THEN ReplayStateInit
    ELSE LET st == ReplayAll(SubSeq(events, 1, Len(events) - 1))
             event == events[Len(events)]
             resolves == event.source = "acc" /\ event.pos_zone \in DOMAIN pos_name_to_zone_id
         IN ReplayEvent(st, event,
                        IF resolves THEN AnyOrder(CandidateOrders(st, event)) ELSE <<>>,
                        IF resolves THEN AnyOrder(GraceOrders(st, event)) ELSE <<>>)

(***************************************************************************)
(* Claims about the Occupancy Replayer.                                    *)
(***************************************************************************)
IsEntry(e, p, z) ==
    e.source = "xovis" /\ e.event_type = "ZONE_ENTRY" /\ e.track_id = p /\ e.zone_id = z
IsExit(e, p, z) ==
    e.source = "xovis" /\ e.event_type = "ZONE_EXIT" /\ e.track_id = p /\ e.zone_id = z

\* the tracks with an ENTRY to z among events[1..k] not followed by an EXIT from z
InsideAfter(events, k, z) ==
    {p \in Tracks : \E i \in 1 .. k :
        /\ IsEntry(events[i], p, z)
        /\ \A j \in (i + 1) .. k : ~IsExit(events[j], p, z)}

\* the position in the merged sequence of the payment a result belongs to
PositionOf(r) ==
    CHOOSE k \in 1 .. Len(consumed) :
        consumed[k].source = "acc" /\ consumed[k].receipt_id = r.receipt_id

\* the exits from the zone of result r that precede its payment
ExitsBefore(r) ==
    {consumed[j] : j \in {k \in 1 .. (PositionOf(r) - 1) :
                            consumed[k].source = "xovis"
                            /\ consumed[k].event_type = "ZONE_EXIT"
                            /\ consumed[k].zone_id = r.zone_id}}

\* C1: after replaying any prefix of the merged stream, the occupancy of every
\* zone of interest is exactly the set of tracks with a ZONE_ENTRY to it in the
\* prefix that no ZONE_EXIT from it follows in the prefix.
C1_OccupancyIsEnteredNotExited ==
    \A z \in pos_zone_ids : occupancy[z] = InsideAfter(consumed, Len(consumed), z)

\* a track entered and left a zone, and another track is inside it
C1_Witness ==
    \E z \in pos_zone_ids : \E p, q \in Tracks :
        /\ p # q
        /\ q \in occupancy[z]
        /\ p \notin occupancy[z]
        /\ \E i, j \in 1 .. Len(consumed) :
              i < j /\ IsEntry(consumed[i], p, z) /\ IsExit(consumed[j], p, z)

\* C2: at equal timestamps the merge yields the sensor event before the
\* payment, so a track whose ENTRY to Z carries the timestamp of a payment at Z
\* (and that does not leave Z at that same timestamp) is among the payment's
\* candidates.
C2_SensorBeforePaymentOnTie ==
    /\ \A i, j \in 1 .. Len(consumed) :
          (i < j /\ consumed[i].source = "acc" /\ consumed[j].source = "xovis")
             => consumed[i].ts_ms < consumed[j].ts_ms
    /\ \A n \in 1 .. Len(results) : \A k \in 1 .. Len(xovis_iter) :
          LET r == results[n]
              e == xovis_iter[k]
          IN (/\ e.event_type = "ZONE_ENTRY"
              /\ e.zone_id = r.zone_id
              /\ e.ts_ms = r.ts_ms
              /\ \A m \in (k + 1) .. Len(xovis_iter) :
                    ~(IsExit(xovis_iter[m], e.track_id, e.zone_id)
                      /\ xovis_iter[m].ts_ms = r.ts_ms))
             => e.track_id \in Range(r.candidates)

\* a payment was evaluated whose candidates hold a track that entered at the
\* payment's own timestamp
C2_Witness ==
    \E n \in 1 .. Len(results) : \E k \in 1 .. Len(xovis_iter) :
        /\ xovis_iter[k].event_type = "ZONE_ENTRY"
        /\ xovis_iter[k].zone_id = results[n].zone_id
        /\ xovis_iter[k].ts_ms = results[n].ts_ms
        /\ xovis_iter[k].track_id \in Range(results[n].candidates)

\* C3: the grace window is inclusive at its edge: with the zone empty, a
\* payment exactly exit_grace_ms after an exit from the zone is a grace match
\* holding the track that left, and a payment exit_grace_ms + 1 after the last
\* exit from the zone is no match.
C3_GraceEdgeInclusive ==
    \A n \in 1 .. Len(results) :
        LET r == results[n] IN
        r.candidates = <<>> =>
            /\ \A ex \in ExitsBefore(r) :
                  ex.ts_ms + exit_grace_ms = r.ts_ms
                     => r.match_type = "grace" /\ ex.track_id \in Range(r.grace_candidates)
            /\ ((\E ex \in ExitsBefore(r) : ex.ts_ms + exit_grace_ms + 1 = r.ts_ms)
                /\ (\A ex \in ExitsBefore(r) : ex.ts_ms + exit_grace_ms + 1 <= r.ts_ms))
                  => r.match_type = "none"

\* one exit, then a payment at the edge of the window (a grace match) and a
\* payment one millisecond past it (no match)
C3_Witness ==
    \E n, m \in 1 .. Len(results) :
        /\ results[n].match_type = "grace"
        /\ \E ex \in ExitsBefore(results[n]) :
              /\ ex.ts_ms + exit_grace_ms = results[n].ts_ms
              /\ ex.track_id \in Range(results[n].grace_candidates)
        /\ results[m].match_type = "none"
        /\ \E ex \in ExitsBefore(results[m]) :
              ex.ts_ms + exit_grace_ms + 1 = results[m].ts_ms

\* a step of the replay that evaluated a payment
AccEvaluated == Len(results') = Len(results) + 1

\* C4: a payment whose zone resolves gets the sorted occupancy of the zone as
\* candidates, and match_type current iff the occupancy is non-empty, grace iff
\* it is empty and some recorded exit from the zone has
\* exit_time >= payment_ts - exit_grace_ms, none otherwise.
C4_MatchRule ==
    [][AccEvaluated =>
        LET r == results'[Len(results')]
            occ == occupancy[r.zone_id]
            exits == recent_exits[r.zone_id]
            recent == \E i \in 1 .. Len(exits) :
                          exits[i].exit_time >= r.ts_ms - exit_grace_ms
        IN /\ Range(r.candidates) = occ
           /\ Len(r.candidates) = Cardinality(occ)
           /\ \A i \in 1 .. (Len(r.candidates) - 1) : r.candidates[i] < r.candidates[i + 1]
           /\ r.match_type = "current" <=> occ # {}
           /\ r.match_type = "grace" <=> (occ = {} /\ recent)
           /\ r.match_type = "none" <=> (occ = {} /\ ~recent)]_vars

\* a payment was evaluated with two tracks in its zone and a third track's
\* exit on record
C4_Witness ==
    \E n \in 1 .. Len(results) :
        /\ results[n].match_type = "current"
        /\ Len(recent_exits[results[n].zone_id]) > 0

\* C5: the result of a payment is the result that the replay of the merged
\* sequence cut right after that payment gives: nothing that follows the
\* payment in the merged sequence has a part in it.
C5_NoLookAhead ==
    \A n \in 1 .. Len(results) :
        LET cut == ReplayAll(SubSeq(consumed, 1, PositionOf(results[n]))).results
        IN results[n] = cut[Len(cut)]

\* a payment was evaluated and a sensor event of its zone follows it in the
\* merged sequence
C5_Witness ==
    \E n \in 1 .. Len(results) : \E k \in 1 .. Len(consumed) :
        /\ k > PositionOf(results[n])
        /\ consumed[k].source = "xovis"
        /\ consumed[k].zone_id = results[n].zone_id

\* C6: merge and replay are deterministic: at most one source can be taken
\* next, and the state after a payment is the same whatever the order in which
\* the occupancy set and the grace set are iterated.
C6_Deterministic ==
    /\ ~(MergeTakesXovis /\ MergeTakesAcc)
    /\ (MergeTakesAcc /\ AccHead.pos_zone \in DOMAIN pos_name_to_zone_id) =>
          \A c1, c2 \in CandidateOrders(ReplayState, AccHead) :
          \A g1, g2 \in GraceOrders(ReplayState, AccHead) :
             ReplayEvent(ReplayState, AccHead, c1, g1) = ReplayEvent(ReplayState, AccHead, c2, g2)

\* a payment is about to be evaluated at a zone that holds two tracks
C6_Witness ==
    /\ MergeTakesAcc
    /\ AccHead.pos_zone \in DOMAIN pos_name_to_zone_id
    /\ Cardinality(occupancy[pos_name_to_zone_id[AccHead.pos_zone]]) = 2

\* C14: the recent-exit list of a zone never grows beyond a fixed length: the
\* length above which the code prunes it.
C14_RecentExitsBounded ==
    \A z \in DOMAIN recent_exits : Len(recent_exits[z]) <= PruneThreshold

\* the last event of the merged sequence is a payment whose zone resolves
LastIsPayment ==
    /\ consumed # <<>>
    /\ consumed[Len(consumed)].source = "acc"
    /\ consumed[Len(consumed)].pos_zone \in DOMAIN pos_name_to_zone_id

\* C15: right after a payment at a zone is processed, the recent-exit list of
\* the zone holds no exit older than the payment's time minus exit_grace_ms.
C15_NoStaleExitAfterPayment ==
    LastIsPayment =>
        LET event == consumed[Len(consumed)]
            zone_exits == recent_exits[pos_name_to_zone_id[event.pos_zone]]
        IN \A i \in 1 .. Len(zone_exits) :
              zone_exits[i].exit_time >= event.ts_ms - exit_grace_ms

\* C17: a payment whose zone name is unknown is reported as a result with
\* match_type none, and its step leaves the occupancy and the recent-exit
\* lists as they were.
C17_UnknownZoneReported ==
    [][(MergeTakesAcc /\ AccHead.pos_zone \notin DOMAIN pos_name_to_zone_id) =>
          /\ Len(results') = Len(results) + 1
          /\ results'[Len(results')].receipt_id = AccHead.receipt_id
          /\ results'[Len(results')].match_type = "none"
          /\ occupancy' = occupancy
          /\ recent_exits' = recent_exits]_vars

\* the events of one source in the merged sequence, in the order yielded
FromSource(events, source) == SelectSeq(events, LAMBDA e : e.source = source)

\* C28: for a sorted sensor sequence and a sorted payment list,
\* merge_event_streams yields every input event exactly once, in
\* non-decreasing timestamp order, with the events of each source in the
\* order their source gave them; the stream ends only when both inputs are
\* used up.
C28_MergeIsOrderedInterleaving ==
    /\ FromSource(consumed, "xovis") = SubSeq(xovis_iter, 1, xi)
    /\ FromSource(consumed, "acc") = SubSeq(acc_events, 1, ai)
    /\ SortedByTs(consumed)
    /\ (~MergeTakesXovis /\ ~MergeTakesAcc) =>
          (xi = Len(xovis_iter) /\ ai = Len(acc_events))

\* both inputs are used up, a payment was yielded between two sensor events,
\* and after a sensor event of its own timestamp
C28_Witness ==
    /\ xi = Len(xovis_iter)
    /\ ai = Len(acc_events)
    /\ \E i, j, k \in 1 .. Len(consumed) :
          /\ i < j /\ j < k
          /\ consumed[i].source = "xovis"
          /\ consumed[j].source = "acc"
          /\ consumed[k].source = "xovis"
          /\ consumed[i].ts_ms = consumed[j].ts_ms
          /\ consumed[j].ts_ms < consumed[k].ts_ms

\* the tracks with an EXIT from the zone of result r within the grace window
\* of its payment, before the payment in the merged sequence
ExitedWithinGrace(r) ==
    {e.track_id : e \in {x \in ExitsBefore(r) : x.ts_ms >= r.ts_ms - exit_grace_ms}}

\* C29: in every result the grace candidates are disjoint from the
\* candidates: a track that left the zone within the grace window and is
\* inside it again at the payment is among the candidates only.
C29_GraceDisjointFromCandidates ==
    \A n \in 1 .. Len(results) :
        LET r == results[n]
            back == ExitedWithinGrace(r)
                        \cap InsideAfter(consumed, PositionOf(r) - 1, r.zone_id)
        IN /\ Range(r.grace_candidates) \cap Range(r.candidates) = {}
           /\ back \subseteq Range(r.candidates)
           /\ back \cap Range(r.grace_candidates) = {}

\* a payment was evaluated at a zone that a track left within the grace
\* window and entered again before the payment
C29_Witness ==
    \E n \in 1 .. Len(results) :
        ExitedWithinGrace(results[n]) \cap Range(results[n].candidates) # {}

\* C37: every track reported in grace_candidates for a payment at zone Z was a
\* member of occupancy[Z] at some earlier point of the same replay: a
\* ZONE_ENTRY of the track to Z was replayed before the payment.
C37_GraceCandidateWasInside ==
    \A n \in 1 .. Len(results) :
        \A p \in Range(results[n].grace_candidates) :
            \E k \in 1 .. (PositionOf(results[n]) - 1) :
                IsEntry(consumed[k], p, results[n].zone_id)

(***************************************************************************)
(* The replay of a busy till: three tracks, one of them a group track, at  *)
(* one POS zone, with payments at any zone name.                           *)
(***************************************************************************)
CrowdTracks == {1, 2, GROUP_ID_BASE}
CrowdTimes == 0 .. MaxCrowdTs

CrowdXovisEvents ==
    {XovisEvent(ts, ty, tr, pos_name_to_zone_id["POS_1"]) :
        ts \in CrowdTimes, ty \in {"ZONE_ENTRY", "ZONE_EXIT"}, tr \in CrowdTracks}
    \cup {XovisEvent(ts, "ZONE_ENTRY", 1, z) : ts \in CrowdTimes, z \in NonPosZone}

\* the timestamp-sorted payment lists of length n over the crowd's times
CrowdAccSeqs(n) ==
    {s \in {[i \in 1 .. n |-> AccEvent(f[i][1], i, f[i][2])] :
                f \in [1 .. n -> CrowdTimes \X PosZoneNames]} : SortedByTs(s)}

CrowdInit ==
    /\ NotReplayIdle
    /\ \E n \in 0 .. MaxCrowdEvents : \E m \in 0 .. (MaxCrowdEvents - n) :
          /\ xovis_iter \in {s \in [1 .. n -> CrowdXovisEvents] : SortedByTs(s)}
          /\ acc_events \in CrowdAccSeqs(m)
    /\ xi = 0
    /\ ai = 0
    /\ consumed = <<>>
    /\ occupancy = ReplayStateInit.occupancy
    /\ recent_exits = ReplayStateInit.recent_exits
    /\ results = ReplayStateInit.results
    /\ stats = ReplayStateInit.stats

\* the number of emitted results with property P
ResultsWith(P(_)) == Cardinality({i \in 1 .. Len(results) : P(results[i])})

\* C35: after any replay every payment with a resolved zone is counted in
\* exactly one of the buckets person_0, person_1, person_2, person_3+ and in
\* exactly one match type, so the bucket counts, the match-type counts and the
\* per-zone totals each sum to the number of emitted results; a grace match
\* is always counted in bucket person_0.
C35_StatsPartitionResults ==
    /\ stats.person_counts["person_0"] = ResultsWith(LAMBDA r : r.person_count = 0)
    /\ stats.person_counts["person_1"] = ResultsWith(LAMBDA r : r.person_count = 1)
    /\ stats.person_counts["person_2"] = ResultsWith(LAMBDA r : r.person_count = 2)
    /\ stats.person_counts["person_3+"] = ResultsWith(LAMBDA r : r.person_count >= 3)
    /\ \A m \in MatchTypes :
          stats.match_types[m] = ResultsWith(LAMBDA r : r.match_type = m)
    /\ \A n \in PosZoneNames :
          /\ stats.by_pos[n].total = ResultsWith(LAMBDA r : r.pos_zone = n)
          /\ stats.by_pos[n].grace_matches
                = ResultsWith(LAMBDA r : r.pos_zone = n /\ r.match_type = "grace" /\ r.person_count = 0)
    /\ stats.person_counts["person_0"] + stats.person_counts["person_1"]
          + stats.person_counts["person_2"] + stats.person_counts["person_3+"] = Len(results)
    /\ stats.match_types["current"] + stats.match_types["grace"] + stats.match_types["none"]
          = Len(results)
    /\ stats.by_pos["POS_1"].total + stats.by_pos["POS_2"].total + stats.by_pos["POS_9"].total
          = Len(results)
    /\ \A i \in 1 .. Len(results) : results[i].match_type = "grace" => results[i].person_count = 0

\* a payment was made with three tracks in its zone and counted in person_3+
C35_Witness ==
    /\ stats.person_counts["person_3+"] = 1
    /\ \E i \in 1 .. Len(results) : Len(results[i].candidates) = 3

(***************************************************************************)
(* The replay of a long quiet spell: one track that keeps entering and     *)
(* leaving one POS zone, with payments at any zone name.                   *)
(***************************************************************************)
QuietXovisEvents ==
    {XovisEvent(ts, ty, 1, pos_name_to_zone_id["POS_1"]) :
        ts \in ReplayTimes, ty \in {"ZONE_ENTRY", "ZONE_EXIT"}}
    \cup {XovisEvent(ts, "ZONE_ENTRY", 1, z) : ts \in ReplayTimes, z \in NonPosZone}

QuietInit ==
    /\ NotReplayIdle
    /\ \E n \in 0 .. MaxQuietEvents : \E m \in 0 .. (MaxQuietEvents - n) :
          /\ xovis_iter \in {s \in [1 .. n -> QuietXovisEvents] : SortedByTs(s)}
          /\ acc_events \in AccSeqs(m)
    /\ xi = 0
    /\ ai = 0
    /\ consumed = <<>>
    /\ occupancy = ReplayStateInit.occupancy
    /\ recent_exits = ReplayStateInit.recent_exits
    /\ results = ReplayStateInit.results
    /\ stats = ReplayStateInit.stats

\* the loop body with the pruning of lines 324-326 removed
ReplayEventUnpruned(st, event, corder, gorder) ==
    [ReplayEvent(st, event, corder, gorder) EXCEPT
        !.recent_exits = IF event.source = "acc" THEN st.recent_exits ELSE @]

\* the replay of a merged sequence from the start with the pruning removed
RECURSIVE ReplayAllUnpruned(_)
ReplayAllUnpruned(events) ==
    IF events = <<>> THEN ReplayStateInit
    ELSE LET st == ReplayAllUnpruned(SubSeq(events, 1, Len(events) - 1))
             event == events[Len(events)]
             resolves == event.source = "acc" /\ event.pos_zone \in DOMAIN pos_name_to_zone_id
         IN ReplayEventUnpruned(st, event,
                        IF resolves THEN AnyOrder(CandidateOrders(st, event)) ELSE <<>>,
                        IF resolves THEN AnyOrder(GraceOrders(st, event)) ELSE <<>>)

\* C36: pruning the recent-exit buffer never changes a result: every payment
\* gets the same candidates, grace_candidates and match_type as in the replay
\* of the same stream with the pruning removed.
C36_PruningKeepsResults ==
    LET unpruned == ReplayAllUnpruned(consumed).results IN
    /\ Len(results) = Len(unpruned)
    /\ \A i \in 1 .. Len(results) :
          /\ results[i].candidates = unpruned[i].candidates
          /\ results[i].grace_candidates = unpruned[i].grace_candidates
          /\ results[i].match_type = unpruned[i].match_type

\* a payment pruned an exit from the list of its zone, and a later payment at
\* the zone was evaluated on the pruned list
C36_Witness ==
    \E i, j \in 1 .. Len(results) :
        /\ i < j
        /\ results[i].zone_id = results[j].zone_id
        /\ Cardinality({k \in 1 .. (PositionOf(results[i]) - 1) :
                            consumed[k] \in ExitsBefore(results[i])}) > PruneThreshold
        /\ \E ex \in ExitsBefore(results[i]) : ex.ts_ms < results[i].ts_ms - exit_grace_ms
        /\ Len(recent_exits[results[j].zone_id])
              < Len(ReplayAllUnpruned(consumed).recent_exits[results[j].zone_id])

(***************************************************************************)
(* Sessions (acc-group-eval.py).  A session is the list [zone, start, end] *)
(* of the code, here the tuple <<zone, start, end>>; an open session has   *)
(* end = None.                                                             *)
(***************************************************************************)
\* Python's None in a session's end
NoneTs == -1

SessionZones == {"POS_1", "POS_2"}
SessionTimes == 0 .. MaxSessionTs

\* [zone, entry, event_ts] and [zone, entry, None]
Sessions ==
    {s \in {<<z, st, en>> : z \in SessionZones, st \in SessionTimes,
                            en \in SessionTimes \cup {NoneTs}} :
        s[3] = NoneTs \/ s[3] >= s[2]}

\* build_raw_sessions ends with sessions.sort(key=lambda s: s[1])
SortedByStart(s) == \A i \in 1 .. (Len(s) - 1) : s[i][2] <= s[i + 1][2]

\* open_entries holds one entry per zone, so one open session per zone is built
OneOpenPerZone(s) ==
    \A i, j \in 1 .. Len(s) :
        (i < j /\ s[i][1] = s[j][1]) => ~(s[i][3] = NoneTs /\ s[j][3] = NoneTs)

\* the unclosed sessions are appended after the closed ones and the sort is
\* stable, so a closed session precedes an open one of the same start
ClosedFirstOnTie(s) ==
    \A i, j \in 1 .. Len(s) :
        (i < j /\ s[i][2] = s[j][2]) => ~(s[i][3] = NoneTs /\ s[j][3] # NoneTs)

\* the lists of n sessions build_raw_sessions can return
RawSessionLists(n) ==
    {s \in [1 .. n -> Sessions] :
        SortedByStart(s) /\ OneOpenPerZone(s) /\ ClosedFirstOnTie(s)}

\* the example of a flicker gap that another zone's session falls into
ExampleSessions == << <<"POS_1", 0, 10>>, <<"POS_2", 11, 12>>, <<"POS_1", 15, 20>> >>
ExampleGaps == {5, 10}

\* list.sort(key=lambda s: s[1]): stable, ascending by start
InsertByStart(t, x) ==
    LET k == Cardinality({i \in 1 .. Len(t) : t[i][2] <= x[2]}) IN
    SubSeq(t, 1, k) \o <<x>> \o SubSeq(t, k + 1, Len(t))

RECURSIVE SortByStart(_)
SortByStart(s) ==
    IF s = <<>> THEN <<>>
    ELSE InsertByStart(SortByStart(SubSeq(s, 1, Len(s) - 1)), s[Len(s)])

\* mutant: an open first range overlaps nothing that is closed
sessions_overlap_OpenFirstNever(start1, end1, start2, end2) ==
    IF start2 = NoneTs THEN FALSE
    ELSE IF end2 = NoneTs THEN end1 = NoneTs \/ start2 <= end1
    ELSE IF end1 = NoneTs THEN FALSE
    ELSE start2 <= end1 /\ end2 >= start1

sessions_overlap(start1, end1, start2, end2) ==
    IF start2 = NoneTs THEN FALSE
    ELSE IF end2 = NoneTs THEN end1 = NoneTs \/ start2 <= end1
    ELSE IF end1 = NoneTs THEN end2 >= start1
    ELSE start2 <= end1 /\ end2 >= start1

\* the keys of by_zone, in insertion order
RECURSIVE ZoneOrder(_)
ZoneOrder(sessions) ==
    IF sessions = <<>> THEN <<>>
    ELSE LET rest == ZoneOrder(SubSeq(sessions, 1, Len(sessions) - 1))
             zone == sessions[Len(sessions)][1]
         IN IF \E i \in 1 .. Len(rest) : rest[i] = zone THEN rest ELSE Append(rest, zone)

\* by_zone[zone], sorted by start
by_zone(sessions, zone) == SortByStart(SelectSeq(sessions, LAMBDA s : s[1] = zone))

other_pos_between_Never(sessions, zone, start, end) == FALSE

other_pos_between(sessions, zone, start, end) ==
    \E i \in 1 .. Len(sessions) :
        /\ sessions[i][1] # zone
        /\ sessions_overlap(start, end, sessions[i][2], sessions[i][3])

\* mutant: a gap equal to the threshold splits
should_split_AtThreshold(sessions, gap, cur_end, nxt_start, zone) ==
    IF cur_end = NoneTs THEN TRUE
    ELSE IF nxt_start - cur_end >= gap THEN TRUE
    ELSE other_pos_between(sessions, zone, cur_end, nxt_start)

should_split(sessions, gap, cur_end, nxt_start, zone) ==
    IF cur_end = NoneTs THEN TRUE
    ELSE IF nxt_start - cur_end > gap THEN TRUE
    ELSE other_pos_between(sessions, zone, cur_end, nxt_start)

\* mutant: a merge leaves the end of the accumulated session as it is
Extended_KeepEnd(current, nxt) == current

\* current[2] = nxt[2]
Extended(current, nxt) == <<current[1], current[2], nxt[3]>>

\* the inner loop over zone_sessions[1:], from its i-th session on
RECURSIVE MergeZone(_, _, _, _, _)
MergeZone(sessions, gap, zone_sessions, i, current) ==
    IF i > Len(zone_sessions) THEN <<current>>
    ELSE LET nxt == zone_sessions[i] IN
         IF should_split(sessions, gap, current[3], nxt[2], current[1])
         THEN <<current>> \o MergeZone(sessions, gap, zone_sessions, i + 1, nxt)
         ELSE MergeZone(sessions, gap, zone_sessions, i + 1, Extended(current, nxt))

\* the outer loop over by_zone.items(), from its k-th zone on
RECURSIVE MergeZones(_, _, _, _)
MergeZones(sessions, gap, zones, k) ==
    IF k > Len(zones) THEN <<>>
    ELSE LET zone_sessions == by_zone(sessions, zones[k]) IN
         MergeZone(sessions, gap, zone_sessions, 2, zone_sessions[1])
             \o MergeZones(sessions, gap, zones, k + 1)

merge_sessions(sessions, gap) ==
    IF sessions = <<>> THEN <<>>
    ELSE SortByStart(MergeZones(sessions, gap, ZoneOrder(sessions), 1))

MergeInit ==
    /\ NotSessionsIdle
    /\ \/ /\ \E n \in 0 .. MaxSessions : raw_sessions \in RawSessionLists(n)
          /\ gap_s \in 0 .. MaxGap
       \/ /\ raw_sessions = ExampleSessions
          /\ gap_s \in ExampleGaps
    /\ merged_sessions = <<>>
    /\ remerged_sessions = <<>>
    /\ merge_pc = "raw"

\* merged = merge_sessions(raw, gap_s)
MergeSessions ==
    /\ merge_pc = "raw"
    /\ merged_sessions' = merge_sessions(raw_sessions, gap_s)
    /\ merge_pc' = "merged"
    /\ UNCHANGED <<raw_sessions, gap_s, remerged_sessions>>
    /\ UNCHANGED not_session_vars

\* merge_sessions applied to its own output
MergeAgain ==
    /\ merge_pc = "merged"
    /\ remerged_sessions' = merge_sessions(merged_sessions, gap_s)
    /\ merge_pc' = "remerged"
    /\ UNCHANGED <<raw_sessions, gap_s, merged_sessions>>
    /\ UNCHANGED not_session_vars

MergeNext ==
    \/ MergeSessions
    \/ MergeAgain

(***************************************************************************)
(* Claims about the Session Merger.                                        *)
(***************************************************************************)
\* C9: merging is idempotent: for any list of one person's sessions and any
\* gap, merging the merged list again with the same gap returns the same list.
C9_MergeIdempotent ==
    merge_pc = "remerged" => remerged_sessions = merged_sessions

\* the end of the merge of two sessions: open (None) unless both are closed,
\* else the later of the two ends
EndOfMerge(end1, end2) ==
    IF end1 = NoneTs \/ end2 = NoneTs THEN NoneTs
    ELSE IF end1 >= end2 THEN end1 ELSE end2

\* session inner lies within session outer of the same zone
Within(inner, outer) ==
    /\ inner[1] = outer[1]
    /\ outer[2] <= inner[2]
    /\ outer[3] = NoneTs \/ (inner[3] # NoneTs /\ inner[3] <= outer[3])

\* C19: when merge_sessions combines an accumulated session with the next one,
\* the merged end is the maximum of the two ends and the merged session is
\* closed only if both are closed, also when the next session lies inside the
\* accumulated one: two sessions merged into one give [start of the first,
\* EndOfMerge of the ends], and every input session lies within a session of
\* its zone in the output.
C19_MergedEndIsMax ==
    merge_pc = "merged" =>
        /\ (Len(raw_sessions) = 2 /\ Len(merged_sessions) = 1) =>
              merged_sessions[1] = <<raw_sessions[1][1], raw_sessions[1][2],
                                     EndOfMerge(raw_sessions[1][3], raw_sessions[2][3])>>
        /\ \A i \in 1 .. Len(raw_sessions) : \E j \in 1 .. Len(merged_sessions) :
              Within(raw_sessions[i], merged_sessions[j])

\* the closed intervals [lo, hi] and [start, end] intersect (end may be None)
Intersects(lo, hi, start, end) == start <= hi /\ (end = NoneTs \/ end >= lo)

\* the i-th and (i+1)-th session of zone, by start, leave a gap that a session
\* of another zone overlaps
GapOccupied(sessions, zone, i) ==
    LET zs == by_zone(sessions, zone) IN
    /\ i + 1 <= Len(zs)
    /\ zs[i][3] # NoneTs
    /\ zs[i][3] <= zs[i + 1][2]
    /\ \E k \in 1 .. Len(sessions) :
          /\ sessions[k][1] # zone
          /\ Intersects(zs[i][3], zs[i + 1][2], sessions[k][2], sessions[k][3])

\* C10: the merger never combines two consecutive sessions of a zone when a
\* session of another zone overlaps the gap [cur_end, nxt_start] between them:
\* the merged list then has a session of the zone ending at cur_end followed
\* by one of the zone starting at nxt_start; in the example Z1=[0,10],
\* Z1=[15,20], Z2=[11,12] with a threshold of at least 5 all three survive.
C10_NoMergeAcrossOtherZone ==
    merge_pc = "merged" =>
        /\ \A zone \in SessionZones : \A i \in 1 .. Len(raw_sessions) :
              GapOccupied(raw_sessions, zone, i) =>
                  LET zs == by_zone(raw_sessions, zone)
                      out == by_zone(merged_sessions, zone)
                  IN \E j \in 1 .. (Len(out) - 1) :
                        /\ out[j][3] = zs[i][3]
                        /\ out[j + 1][2] = zs[i + 1][2]
        /\ raw_sessions = ExampleSessions => merged_sessions = ExampleSessions

\* a gap within the threshold that only the other zone's session keeps open
C10_Witness ==
    /\ merge_pc = "merged"
    /\ \E zone \in SessionZones : \E i \in 1 .. Len(raw_sessions) :
          /\ GapOccupied(raw_sessions, zone, i)
          /\ by_zone(raw_sessions, zone)[i + 1][2] - by_zone(raw_sessions, zone)[i][3] <= gap_s
          /\ by_zone(raw_sessions, zone)[i][3] < by_zone(raw_sessions, zone)[i + 1][2]

\* the i-th session of the zone, by start, is kept apart from the one before
\* it: that one is open, or the gap between them exceeds the threshold, or a
\* session of another zone overlaps the gap
KeptApart(sessions, gap, zone, i) ==
    LET zs == by_zone(sessions, zone) IN
    \/ zs[i - 1][3] = NoneTs
    \/ zs[i][2] - zs[i - 1][3] > gap
    \/ \E k \in 1 .. Len(sessions) :
          /\ sessions[k][1] # zone
          /\ Intersects(zs[i - 1][3], zs[i][2], sessions[k][2], sessions[k][3])

\* the sessions of the zone, by start, that begin a merged session
ChainHeads(sessions, gap, zone) ==
    {i \in 1 .. Len(by_zone(sessions, zone)) : i = 1 \/ KeptApart(sessions, gap, zone, i)}

\* the j-th smallest element of a set of numbers
NthOf(S, j) == CHOOSE k \in S : Cardinality({m \in S : m <= k}) = j

\* C32: merge_sessions splits two consecutive sessions of a zone whenever
\* nxt_start - cur_end exceeds gap_s and merges them when the gap is at most
\* gap_s, equality included (cur_end closed, no session of another zone over
\* the gap); merging chains left to right, so sessions whose adjacent gaps are
\* all within gap_s become one session however far the last starts after the
\* first ends: the merged sessions of a zone start exactly where a session is
\* kept apart from the one before it.
C32_SplitOnGapChainOtherwise ==
    merge_pc = "merged" =>
        \A zone \in SessionZones :
            LET heads == ChainHeads(raw_sessions, gap_s, zone)
                zs == by_zone(raw_sessions, zone)
                out == by_zone(merged_sessions, zone)
            IN /\ Len(out) = Cardinality(heads)
               /\ \A j \in 1 .. Len(out) : out[j][2] = zs[NthOf(heads, j)][2]

\* three sessions of a zone became one: the first two are merged over a gap
\* of exactly gap_s, and the third starts more than gap_s after the first ends
C32_Witness ==
    /\ merge_pc = "merged"
    /\ \E zone \in SessionZones :
          LET zs == by_zone(raw_sessions, zone) IN
          /\ Len(zs) = 3
          /\ Len(by_zone(merged_sessions, zone)) = 1
          /\ zs[1][3] # NoneTs
          /\ zs[2][2] - zs[1][3] = gap_s
          /\ zs[3][2] - zs[1][3] > gap_s

(***************************************************************************)
(* The Group Candidate Evaluator (acc-exit-window-report.py).              *)
(***************************************************************************)
\* members of a shared payment key (a key is shared by two or more persons)
GroupMembers == <<"p1", "p2", "p3">>

\* --min-dwell-ms, --entry-spread-s, --other-pos-window-s, --other-pos-min-s
\* and --merge-gap-s, scaled to the model's timestamps
MinDwellChoices == {0, 1000}
EntrySpreadChoices == {0, 1}
OtherPosWindowChoices == {1, 2}
OtherPosMinChoices == {0, 1}
MergeGapChoices == {0, 1}
\* the zone of the shared key; the code only compares zone names for equality
AccZones == {"POS_1"}

ArgsChoices ==
    [min_dwell_ms : MinDwellChoices, entry_spread_s : EntrySpreadChoices,
     other_pos_window_s : OtherPosWindowChoices, other_pos_min_s : OtherPosMinChoices,
     merge_gap_s : MergeGapChoices]

\* the raw sessions of one journey: at most MaxMemberSessions of them
MemberSessionLists == UNION {RawSessionLists(n) : n \in 0 .. MaxMemberSessions}

Min(S) == CHOOSE x \in S : \A y \in S : x <= y
Max(S) == CHOOSE x \in S : \A y \in S : x >= y

\* session_at returns (start, end) of the first covering session, or None
NoSession == <<>>

session_at(sessions, zone, ts) ==
    LET hits == {i \in 1 .. Len(sessions) :
                    /\ sessions[i][1] = zone
                    /\ ts >= sessions[i][2]
                    /\ (sessions[i][3] = NoneTs \/ ts <= sessions[i][3])}
    IN IF hits = {} THEN NoSession
       ELSE <<sessions[Min(hits)][2], sessions[Min(hits)][3]>>

\* mutant: the window is centred on the payment, [ts - window_s, ts + window_s]
RECURSIVE other_pos_duration_s_Centred(_, _, _, _)
other_pos_duration_s_Centred(sessions, zone, ts, window_s) ==
    IF sessions = <<>> THEN 0
    ELSE LET s == Head(sessions)
             window_start == ts - window_s
             window_end == ts + window_s
             session_end == IF s[3] = NoneTs THEN window_end ELSE s[3]
             overlap_start == Max({s[2], window_start})
             overlap_end == Min({session_end, window_end})
             rest == other_pos_duration_s_Centred(Tail(sessions), zone, ts, window_s)
         IN IF s[1] # zone /\ overlap_end > overlap_start
            THEN (overlap_end - overlap_start) + rest
            ELSE rest

\* seconds of other-zone sessions inside the trailing window [ts - window_s, ts]
RECURSIVE other_pos_duration_s(_, _, _, _)
other_pos_duration_s(sessions, zone, ts, window_s) ==
    IF sessions = <<>> THEN 0
    ELSE LET s == Head(sessions)
             window_start == ts - window_s
             window_end == ts
             session_end == IF s[3] = NoneTs THEN window_end ELSE s[3]
             overlap_start == Max({s[2], window_start})
             overlap_end == Min({session_end, window_end})
             rest == other_pos_duration_s(Tail(sessions), zone, ts, window_s)
         IN IF s[1] # zone /\ overlap_end > overlap_start
            THEN (overlap_end - overlap_start) + rest
            ELSE rest

other_pos_active(total_s, min_s) ==
    IF min_s <= 0 THEN total_s > 0 ELSE total_s >= min_s

\* mutant: the dwell runs from the payment to the session's end
PresentEntry_DwellToEnd(sessions, pid, zone, ts, a) ==
    LET at == session_at(sessions, zone, ts)
        other_pos_total_s == other_pos_duration_s(sessions, zone, ts, a.other_pos_window_s)
    IN [person_id |-> pid,
        entry_ts |-> at[1],
        dwell_ms |-> (at[2] - ts) * 1000,
        other_pos_total_s |-> other_pos_total_s,
        other_pos_activity |-> other_pos_active(other_pos_total_s, a.other_pos_min_s)]

\* the dict appended to present_raw / present_merged for one present member
PresentEntry(sessions, pid, zone, ts, a) ==
    LET start == session_at(sessions, zone, ts)[1]
        other_pos_total_s == other_pos_duration_s(sessions, zone, ts, a.other_pos_window_s)
    IN [person_id |-> pid,
        entry_ts |-> start,
        dwell_ms |-> (ts - start) * 1000,
        other_pos_total_s |-> other_pos_total_s,
        other_pos_activity |-> other_pos_active(other_pos_total_s, a.other_pos_min_s)]

\* one iteration of a "for pid in members" loop
PresentAppend(present, sessions, pid, zone, ts, a) ==
    IF session_at(sessions, zone, ts) = NoSession THEN present
    ELSE Append(present, PresentEntry(sessions, pid, zone, ts, a))

entry_spread(entries) ==
    IF Len(entries) < 2 THEN NoneTs
    ELSE LET times == {entries[i].entry_ts : i \in 1 .. Len(entries)}
         IN Max(times) - Min(times)

\* mutant: a dwell equal to min_dwell_ms does not qualify
Qualified_Strict(present, a) == SelectSeq(present, LAMBDA m : m.dwell_ms > a.min_dwell_ms)

Qualified(present, a) == SelectSeq(present, LAMBDA m : m.dwell_ms >= a.min_dwell_ms)

\* mutant: the group is distracted only if every member is
AnyOtherPosActivity_All(entries) == \A i \in 1 .. Len(entries) : entries[i].other_pos_activity

AnyOtherPosActivity(entries) == \E i \in 1 .. Len(entries) : entries[i].other_pos_activity

test_b_present_dwell(present_raw_qualified) == Len(present_raw_qualified) >= 2

\* mutant: a spread equal to the limit fails
test_c_entry_spread_Strict(test_b, spread_raw, a) ==
    test_b /\ spread_raw # NoneTs /\ spread_raw < a.entry_spread_s

test_c_entry_spread(test_b, spread_raw, a) ==
    test_b /\ spread_raw # NoneTs /\ spread_raw <= a.entry_spread_s

\* mutant: stage D is not gated on stage C
test_d_focus_Ungated(test_c, present_raw_qualified) ==
    ~AnyOtherPosActivity(present_raw_qualified)

test_d_focus(test_c, present_raw_qualified) ==
    test_c /\ ~AnyOtherPosActivity(present_raw_qualified)

\* mutant: stage E without the other-zone activity test
test_e_flicker_merge_NoFocus(present_merged_qualified, spread_merged, a) ==
    /\ Len(present_merged_qualified) >= 2
    /\ spread_merged # NoneTs
    /\ spread_merged <= a.entry_spread_s

test_e_flicker_merge(present_merged_qualified, spread_merged, a) ==
    /\ Len(present_merged_qualified) >= 2
    /\ spread_merged # NoneTs
    /\ spread_merged <= a.entry_spread_s
    /\ ~AnyOtherPosActivity(present_merged_qualified)

\* the dict evaluate_shared_key returns
Evaluation(p_raw, p_merged, a) ==
    LET present_raw_qualified == Qualified(p_raw, a)
        present_merged_qualified == Qualified(p_merged, a)
        spread_raw == entry_spread(present_raw_qualified)
        spread_merged == entry_spread(present_merged_qualified)
        test_b == test_b_present_dwell(present_raw_qualified)
        test_c == test_c_entry_spread(test_b, spread_raw, a)
        test_d == test_d_focus(test_c, present_raw_qualified)
        test_e == test_e_flicker_merge(present_merged_qualified, spread_merged, a)
    IN [present_raw |-> present_raw_qualified,
        present_merged |-> present_merged_qualified,
        entry_spread_raw_s |-> spread_raw,
        entry_spread_merged_s |-> spread_merged,
        test_b_present_dwell |-> test_b,
        test_c_entry_spread |-> test_c,
        test_d_focus |-> test_d,
        test_e_flicker_merge |-> test_e]

\* the example of two members in zone POS_1 over [0 s, 20 s] and [2 s, 18 s],
\* a payment at 15 s and the default arguments of the command line
ExampleGroup ==
    [acc_ts |-> 15,
     args |-> [min_dwell_ms |-> 7000, entry_spread_s |-> 10, other_pos_window_s |-> 30,
               other_pos_min_s |-> 0, merge_gap_s |-> 10],
     members |-> <<"p1", "p2">>,
     sessions |-> << << <<"POS_1", 0, 20>> >>, << <<"POS_1", 2, 18>> >> >>]

\* the members argument of evaluate_shared_key
members == IF args = ExampleGroup.args THEN ExampleGroup.members ELSE GroupMembers

\* the raw sessions of a journey with one session or none
ShortSessionLists == RawSessionLists(0) \cup RawSessionLists(1)

GroupInit ==
    /\ NotGroupIdle
    /\ \/ acc_ts \in SessionTimes /\ args \in ArgsChoices
       \/ acc_ts = ExampleGroup.acc_ts /\ args = ExampleGroup.args
    /\ acc_zone \in AccZones
    /\ member_k = 0
    /\ member_sessions = <<>>
    /\ present_raw = <<>>
    /\ present_merged = <<>>
    /\ evaluation = <<>>
    /\ group_pc = "members"

\* the raw session lists the next member may have
MemberJourneys ==
    IF args = ExampleGroup.args
    THEN {ExampleGroup.sessions[member_k + 1]}
    ELSE IF member_k < 2 THEN MemberSessionLists
    ELSE ShortSessionLists

\* "for pid in members": the next member and its raw sessions
NextMember ==
    /\ group_pc = "members"
    /\ member_k < Len(members)
    /\ member_sessions' \in MemberJourneys
    /\ group_pc' = "present"
    /\ UNCHANGED <<acc_ts, acc_zone, args, member_k, present_raw, present_merged, evaluation>>
    /\ UNCHANGED not_group_vars

\* the member's turn in the present_raw loop and, with the merge of its raw
\* sessions, in the present_merged loop
EvaluateMember ==
    /\ group_pc = "present"
    /\ LET pid == members[member_k + 1]
           raw == member_sessions
           merged == merge_sessions(raw, args.merge_gap_s)
       IN /\ present_raw' = PresentAppend(present_raw, raw, pid, acc_zone, acc_ts, args)
          /\ present_merged' = PresentAppend(present_merged, merged, pid, acc_zone, acc_ts, args)
    /\ member_k' = member_k + 1
    /\ member_sessions' = <<>>
    /\ group_pc' = "members"
    /\ UNCHANGED <<acc_ts, acc_zone, args, evaluation>>
    /\ UNCHANGED not_group_vars

\* the stage tests, once both loops have run over all members
EvaluateSharedKey ==
    /\ group_pc = "members"
    /\ member_k = Len(members)
    /\ evaluation' = Evaluation(present_raw, present_merged, args)
    /\ group_pc' = "done"
    /\ UNCHANGED <<acc_ts, acc_zone, args, member_k, member_sessions, present_raw, present_merged>>
    /\ UNCHANGED not_group_vars

GroupNext ==
    \/ NextMember
    \/ EvaluateMember
    \/ EvaluateSharedKey

(***************************************************************************)
(* Claims about the Group Candidate Evaluator.                             *)
(***************************************************************************)
\* C7: for every shared payment key and every combination of member sessions,
\* test_e_flicker_merge = true implies test_d_focus = true.
C7_FlickerImpliesFocus ==
    group_pc = "done" =>
        (evaluation.test_e_flicker_merge => evaluation.test_d_focus)

\* C8: for every shared payment key, test_d_focus = true implies
\* test_c_entry_spread = true, and test_c_entry_spread = true implies
\* test_b_present_dwell = true.
C8_FocusImpliesSpreadImpliesDwell ==
    group_pc = "done" =>
        /\ evaluation.test_d_focus => evaluation.test_c_entry_spread
        /\ evaluation.test_c_entry_spread => evaluation.test_b_present_dwell

\* an evaluated key whose raw focus stage passes with two qualified members
\* that entered at different times
C8_Witness ==
    /\ group_pc = "done"
    /\ evaluation.test_d_focus
    /\ Len(evaluation.present_raw) = 2
    /\ evaluation.present_raw[1].entry_ts # evaluation.present_raw[2].entry_ts

CoveringDwells(sessions) ==
    {(acc_ts - sessions[i][2]) * 1000 :
        i \in {j \in 1 .. Len(sessions) :
                  /\ sessions[j][1] = acc_zone
                  /\ sessions[j][2] <= acc_ts
                  /\ (sessions[j][3] = NoneTs \/ acc_ts <= sessions[j][3])}}

\* the members of a present list
PersonsOf(present) == {present[i].person_id : i \in 1 .. Len(present)}

\* C20: a member qualifies for Stage B exactly when it has a session in the
\* payment's zone that covers the payment's time with payment time minus
\* session start >= min_dwell_ms (equality qualifies), and
\* test_b_present_dwell is true exactly when at least two members qualify.
C20_StageB ==
    /\ [][group_pc = "present" =>
            LET pid == members[member_k + 1]
                qualifies == \E d \in CoveringDwells(member_sessions) : d >= args.min_dwell_ms
                n == Len(present_raw')
            IN /\ \/ present_raw' = present_raw
                  \/ n = Len(present_raw) + 1 /\ SubSeq(present_raw', 1, n - 1) = present_raw
               /\ qualifies <=> /\ present_raw' # present_raw
                                /\ present_raw'[n].person_id = pid
                                /\ present_raw'[n].dwell_ms >= args.min_dwell_ms]_vars
    /\ [](group_pc = "done" =>
            LET qualified == {i \in 1 .. Len(present_raw) :
                                 present_raw[i].dwell_ms >= args.min_dwell_ms}
            IN /\ PersonsOf(evaluation.present_raw) = {present_raw[i].person_id : i \in qualified}
               /\ Len(evaluation.present_raw) = Cardinality(qualified)
               /\ evaluation.test_b_present_dwell <=> Cardinality(qualified) >= 2)

\* an evaluated key that passes Stage B with a member whose dwell is exactly
\* min_dwell_ms
C20_Witness ==
    /\ group_pc = "done"
    /\ args.min_dwell_ms > 0
    /\ evaluation.test_b_present_dwell
    /\ \E i \in 1 .. Len(evaluation.present_raw) :
          evaluation.present_raw[i].dwell_ms = args.min_dwell_ms

\* the positions in present_raw of the members that pass the dwell test
QualifiedRaw ==
    {i \in 1 .. Len(present_raw) : present_raw[i].dwell_ms >= args.min_dwell_ms}

\* whether the entry times of the B-qualified members lie within entry_spread_s
SpreadWithinLimit ==
    \A i, j \in QualifiedRaw :
        present_raw[i].entry_ts - present_raw[j].entry_ts <= args.entry_spread_s

\* C21: test_c_entry_spread is true exactly when test_b_present_dwell is true
\* and, among the B-qualified members only, latest entry minus earliest entry
\* is at most entry_spread_s; a spread equal to the limit passes, and members
\* that failed the dwell test do not enter the spread.
C21_StageC ==
    group_pc = "done" =>
        (evaluation.test_c_entry_spread <=>
            (evaluation.test_b_present_dwell /\ SpreadWithinLimit))

\* an evaluated key that passes stage C with a spread equal to the limit,
\* while a present member that failed the dwell test entered further apart
C21_Witness ==
    /\ group_pc = "done"
    /\ evaluation.test_c_entry_spread
    /\ evaluation.entry_spread_raw_s = args.entry_spread_s
    /\ \E i \in (1 .. Len(present_raw)) \ QualifiedRaw : \E j \in QualifiedRaw :
          \/ present_raw[i].entry_ts - present_raw[j].entry_ts > args.entry_spread_s
          \/ present_raw[j].entry_ts - present_raw[i].entry_ts > args.entry_spread_s

\* the member's time in other zones is activity that reaches the threshold
ReachesThreshold(m) ==
    m.other_pos_total_s > 0 /\ m.other_pos_total_s >= args.other_pos_min_s

C23_FlickerEqualsFocusWhenUnmerged ==
    /\ [][(/\ group_pc = "present"
           /\ present_merged = present_raw
           /\ merge_sessions(member_sessions, args.merge_gap_s) = member_sessions)
          => present_merged' = present_raw']_vars
    /\ []((group_pc = "done" /\ present_merged = present_raw) =>
            (evaluation.test_e_flicker_merge <=> evaluation.test_d_focus))

\* an evaluated key whose merged present list equals the raw one, with two
\* members or more, that passes stage D and stage E
C23_Witness ==
    /\ group_pc = "done"
    /\ present_merged = present_raw
    /\ Len(present_raw) >= 2
    /\ evaluation.test_d_focus
    /\ evaluation.test_e_flicker_merge

(***************************************************************************)
(* The Session Builders: build_raw_sessions (acc-group-eval.py) and        *)
(* build_intervals (acc-person2-review.py).                                *)
(***************************************************************************)
\* a Python dict as the sequence of its <<key, value>> items, in insertion order
DictHas(d, k) == \E i \in 1 .. Len(d) : d[i][1] = k
DictGet(d, k) == d[CHOOSE i \in 1 .. Len(d) : d[i][1] = k][2]
\* mutant: a key already present keeps its value
DictSet_KeepFirst(d, k, v) == IF DictHas(d, k) THEN d ELSE Append(d, <<k, v>>)

DictSet(d, k, v) ==
    IF DictHas(d, k) THEN [i \in 1 .. Len(d) |-> IF d[i][1] = k THEN <<k, v>> ELSE d[i]]
    ELSE Append(d, <<k, v>>)
DictPop(d, k) == SelectSeq(d, LAMBDA item : item[1] # k)

\* one journey event: its type, data.zone and ts
JourneyEvent(type, zone, ts) == [type |-> type, zone |-> zone, ts |-> ts]

\* zone_entry / zone_exit of the POS zones at every time, an event of a zone
\* that is not a POS zone, and an event of another type
JourneyEvents ==
    {JourneyEvent(ty, z, t) : ty \in {"zone_entry", "zone_exit"},
                              z \in SessionZones, t \in SessionTimes}
        \cup {JourneyEvent("zone_entry", "EXIT_1", 0), JourneyEvent("acc", "POS_1", 0)}

\* the event lists of a journey: any order of timestamps
JourneyEventLists == UNION {[1 .. n -> JourneyEvents] : n \in 0 .. MaxJourneyEvents}

IsPosZone(zone) == zone \in SessionZones

\* mutant: an EXIT with no open entry emits a session of no length
BuildRawStep_OrphanExit(st, event) ==
    IF ~IsPosZone(event.zone) THEN st
    ELSE IF event.type = "zone_entry"
         THEN [st EXCEPT !.open_entries = DictSet(@, event.zone, event.ts)]
    ELSE IF event.type = "zone_exit"
         THEN [sessions |-> Append(st.sessions,
                                   <<event.zone,
                                     IF DictHas(st.open_entries, event.zone)
                                     THEN DictGet(st.open_entries, event.zone)
                                     ELSE event.ts,
                                     event.ts>>),
               open_entries |-> DictPop(st.open_entries, event.zone)]
    ELSE st

\* the body of "for event in events" on the pair (sessions, open_entries)
BuildRawStep(st, event) ==
    IF ~IsPosZone(event.zone) THEN st
    ELSE IF event.type = "zone_entry"
         THEN [st EXCEPT !.open_entries = DictSet(@, event.zone, event.ts)]
    ELSE IF event.type = "zone_exit"
         THEN IF DictHas(st.open_entries, event.zone)
              THEN [sessions |-> Append(st.sessions,
                                        <<event.zone, DictGet(st.open_entries, event.zone), event.ts>>),
                    open_entries |-> DictPop(st.open_entries, event.zone)]
              ELSE st
    ELSE st

RECURSIVE BuildRawLoop(_)
BuildRawLoop(events) ==
    IF events = <<>> THEN [sessions |-> <<>>, open_entries |-> <<>>]
    ELSE BuildRawStep(BuildRawLoop(SubSeq(events, 1, Len(events) - 1)), events[Len(events)])

\* mutant: the entries still open at the end are not emitted
build_raw_sessions_NoUnclosed(events) == SortByStart(BuildRawLoop(events).sessions)

build_raw_sessions(events) ==
    LET st == BuildRawLoop(events)
        unclosed == [i \in 1 .. Len(st.open_entries) |->
                        <<st.open_entries[i][1], st.open_entries[i][2], NoneTs>>]
    IN SortByStart(st.sessions \o unclosed)

\* the (frame_ms, etype, track_id, zone_id) tuples of the same zone events, as
\* filter_zone_events hands them to build_intervals; the journey is one track
ZoneEventOf(event) ==
    <<event.ts, IF event.type = "zone_entry" THEN "ZONE_ENTRY" ELSE "ZONE_EXIT",
      1, pos_name_to_zone_id[event.zone]>>

ZoneEventsOf(events) ==
    LET kept == SelectSeq(events, LAMBDA e :
                    IsPosZone(e.zone) /\ e.type \in {"zone_entry", "zone_exit"})
    IN [i \in 1 .. Len(kept) |-> ZoneEventOf(kept[i])]

\* zone_events.sort(key=lambda x: x[0]): stable, ascending by time
InsertByTime(t, x) ==
    LET k == Cardinality({i \in 1 .. Len(t) : t[i][1] <= x[1]}) IN
    SubSeq(t, 1, k) \o <<x>> \o SubSeq(t, k + 1, Len(t))

RECURSIVE SortByTime(_)
SortByTime(s) ==
    IF s = <<>> THEN <<>>
    ELSE InsertByTime(SortByTime(SubSeq(s, 1, Len(s) - 1)), s[Len(s)])

\* the body of the loop of build_intervals on (open_intervals, appended), where
\* appended lists <<track_id, interval>> in the order of the appends
BuildIntervalsStep(st, ev) ==
    LET key == <<ev[3], ev[4]>> IN
    IF ev[2] = "ZONE_ENTRY"
    THEN [st EXCEPT !.open_intervals = DictSet(@, key, ev[1])]
    ELSE IF DictHas(st.open_intervals, key)
         THEN [open_intervals |-> DictPop(st.open_intervals, key),
               appended |-> Append(st.appended,
                                   <<ev[3], <<DictGet(st.open_intervals, key), ev[1], ev[4], TRUE>> >>)]
         ELSE st

RECURSIVE BuildIntervalsLoop(_)
BuildIntervalsLoop(zone_events) ==
    IF zone_events = <<>> THEN [open_intervals |-> <<>>, appended |-> <<>>]
    ELSE BuildIntervalsStep(BuildIntervalsLoop(SubSeq(zone_events, 1, Len(zone_events) - 1)),
                            zone_events[Len(zone_events)])

\* intervals_by_track: track_id -> list of (start, end, zone_id, closed)
build_intervals(events) ==
    LET zone_events == SortByTime(events)
        st == BuildIntervalsLoop(zone_events)
        last_time == zone_events[Len(zone_events)][1]
        unclosed == [i \in 1 .. Len(st.open_intervals) |->
                        <<st.open_intervals[i][1][1],
                          <<st.open_intervals[i][2], last_time, st.open_intervals[i][1][2], FALSE>> >>]
        appended == IF zone_events = <<>> THEN st.appended ELSE st.appended \o unclosed
        tracks == {appended[i][1] : i \in 1 .. Len(appended)}
    IN [tid \in tracks |->
           LET own == SelectSeq(appended, LAMBDA a : a[1] = tid)
           IN [i \in 1 .. Len(own) |-> own[i][2]]]

MaxOf(a, b) == IF a >= b THEN a ELSE b

\* the body of the loop of merge_intervals on the list merged
MergeIntervalsStep(merged, iv, window) ==
    LET p == merged[Len(merged)] IN
    IF iv[3] = p[3] /\ iv[1] - p[2] <= window
    THEN [merged EXCEPT ![Len(merged)] = <<p[1], MaxOf(p[2], iv[2]), iv[3], p[4] /\ iv[4]>>]
    ELSE Append(merged, iv)

RECURSIVE MergeIntervalsLoop(_, _)
MergeIntervalsLoop(intervals, window) ==
    IF Len(intervals) = 1 THEN <<intervals[1]>>
    ELSE MergeIntervalsStep(
             MergeIntervalsLoop(SubSeq(intervals, 1, Len(intervals) - 1), window),
             intervals[Len(intervals)], window)

merge_intervals(intervals, window) ==
    IF intervals = <<>> THEN <<>>
    ELSE MergeIntervalsLoop(SortByTime(intervals), window)

BuildInit ==
    /\ NotBuildIdle
    /\ journey_events \in JourneyEventLists
    /\ built_sessions = <<>>
    /\ built_intervals = <<>>
    /\ merged_intervals = <<>>
    /\ build_pc = "events"

\* raw_sessions[pid] = build_raw_sessions(events)
BuildRawSessions ==
    /\ build_pc = "events"
    /\ built_sessions' = build_raw_sessions(journey_events)
    /\ build_pc' = "sessions"
    /\ UNCHANGED <<journey_events, built_intervals, merged_intervals>>
    /\ UNCHANGED not_build_vars

\* intervals_by_track = build_intervals(zone_events)
BuildIntervals ==
    /\ build_pc = "sessions"
    /\ built_intervals' = build_intervals(ZoneEventsOf(journey_events))
    /\ build_pc' = "intervals"
    /\ UNCHANGED <<journey_events, built_sessions, merged_intervals>>
    /\ UNCHANGED not_build_vars

\* merged_by_track[tid] = merge_intervals(intervals, merge_window_ms)
MergeIntervals ==
    /\ build_pc = "intervals"
    /\ merged_intervals' = [tid \in DOMAIN built_intervals |->
                               merge_intervals(built_intervals[tid], merge_window_ms)]
    /\ build_pc' = "built"
    /\ UNCHANGED <<journey_events, built_sessions, built_intervals>>
    /\ UNCHANGED not_build_vars

BuildNext ==
    \/ BuildRawSessions
    \/ BuildIntervals
    \/ MergeIntervals

(***************************************************************************)
(* Claims about the Session Builders.                                      *)
(***************************************************************************)
\* two sessions share more than an instant (an open session has no end)
SharesTime(a, b) ==
    /\ (b[3] = NoneTs \/ a[2] < b[3])
    /\ (a[3] = NoneTs \/ b[2] < a[3])

\* C11: for any input event list of one person, in any order, the sessions
\* build_raw_sessions returns for a given zone never overlap one another, and
\* the returned list is ordered by start.
C11_NonOverlappingOrdered ==
    build_pc \in {"sessions", "intervals", "built"} =>
        /\ SortedByStart(built_sessions)
        /\ \A i, j \in 1 .. Len(built_sessions) :
              (i < j /\ built_sessions[i][1] = built_sessions[j][1])
                  => ~SharesTime(built_sessions[i], built_sessions[j])

\* C12: every closed session emitted by the session builders satisfies
\* start < end strictly, for any input event list, including an ENTRY and EXIT
\* of the same zone carrying the same timestamp and input that is not in
\* chronological order.
C12_ClosedSessionsStrict ==
    build_pc = "built" =>
        /\ \A i \in 1 .. Len(built_sessions) :
              built_sessions[i][3] # NoneTs => built_sessions[i][2] < built_sessions[i][3]
        /\ \A tid \in DOMAIN built_intervals : \A i \in 1 .. Len(built_intervals[tid]) :
              built_intervals[tid][i][4] => built_intervals[tid][i][1] < built_intervals[tid][i][2]

\* the zone_entry and zone_exit events of a zone in the journey, in list order
ZoneJourney(events, zone) ==
    SelectSeq(events, LAMBDA e : e.zone = zone /\ e.type \in {"zone_entry", "zone_exit"})

\* C25: a later ENTRY to a zone with no EXIT in between supersedes the earlier
\* one: a journey whose events of zone Z are ENTRY at t1, ENTRY at t2, EXIT at
\* t3 yields exactly one session for Z, [t2, t3], and none starting at t1
\* (unless t1 = t2).
C25_LaterEntrySupersedes ==
    build_pc = "sessions" =>
        \A zone \in SessionZones :
            LET zj == ZoneJourney(journey_events, zone) IN
            (/\ Len(zj) = 3
             /\ zj[1].type = "zone_entry"
             /\ zj[2].type = "zone_entry"
             /\ zj[3].type = "zone_exit")
            => by_zone(built_sessions, zone) = << <<zone, zj[2].ts, zj[3].ts>> >>

\* sessions were built from ENTRY at 0, ENTRY at 1, EXIT at 1 of one zone
C25_Witness ==
    /\ build_pc = "sessions"
    /\ \E zone \in SessionZones :
          LET zj == ZoneJourney(journey_events, zone) IN
          /\ Len(zj) = 3
          /\ zj[1].type = "zone_entry" /\ zj[2].type = "zone_entry" /\ zj[3].type = "zone_exit"
          /\ zj[1].ts # zj[2].ts
          /\ Len(built_sessions) > 0

\* the k-th event of the journey is an EXIT of a POS zone with no open entry:
\* no event of its zone precedes it, or the last one that does is an EXIT
OrphanExit(events, k) ==
    /\ events[k].type = "zone_exit"
    /\ IsPosZone(events[k].zone)
    /\ LET before == ZoneJourney(SubSeq(events, 1, k - 1), events[k].zone)
       IN before = <<>> \/ before[Len(before)].type = "zone_exit"

\* the list without its k-th element
Without(s, k) == SubSeq(s, 1, k - 1) \o SubSeq(s, k + 1, Len(s))

\* C26: an EXIT for a zone with no open entry is dropped: it emits no session
\* and leaves the open-entry map and the sessions emitted so far as they were,
\* so the journey without that EXIT yields the same sessions.
C26_OrphanExitDropped ==
    build_pc = "sessions" =>
        \A k \in 1 .. Len(journey_events) :
            OrphanExit(journey_events, k) =>
                /\ BuildRawLoop(SubSeq(journey_events, 1, k))
                      = BuildRawLoop(SubSeq(journey_events, 1, k - 1))
                /\ built_sessions = build_raw_sessions(Without(journey_events, k))

\* sessions were built from a journey with an EXIT that has no open entry
\* between an ENTRY/EXIT pair of its zone and a later ENTRY of it
C26_Witness ==
    /\ build_pc = "sessions"
    /\ \E k \in 2 .. (Len(journey_events) - 1) :
          /\ OrphanExit(journey_events, k)
          /\ ZoneJourney(SubSeq(journey_events, 1, k - 1), journey_events[k].zone) # <<>>
          /\ journey_events[k + 1].zone = journey_events[k].zone
          /\ journey_events[k + 1].type = "zone_entry"

\* the positions in the sessions of the unclosed sessions of a zone
UnclosedOf(sessions, zone) ==
    {i \in 1 .. Len(sessions) : sessions[i][1] = zone /\ sessions[i][3] = NoneTs}

\* C27: at the end of the input build_raw_sessions emits exactly one unclosed
\* session (end = None) for each zone whose last ENTRY is not followed by an
\* EXIT, starting at that ENTRY's time, and no unclosed session for any other
\* zone.
C27_UnclosedSessions ==
    build_pc = "sessions" =>
        \A zone \in SessionZones :
            LET zj == ZoneJourney(journey_events, zone)
                unclosed == UnclosedOf(built_sessions, zone)
            IN IF zj # <<>> /\ zj[Len(zj)].type = "zone_entry"
               THEN /\ Cardinality(unclosed) = 1
                    /\ \A i \in unclosed : built_sessions[i][2] = zj[Len(zj)].ts
               ELSE unclosed = {}

\* sessions were built from a journey that leaves one zone open after two
\* ENTRYs at different times, and closes the other zone
C27_Witness ==
    /\ build_pc = "sessions"
    /\ \E z1, z2 \in SessionZones :
          LET zj1 == ZoneJourney(journey_events, z1)
              zj2 == ZoneJourney(journey_events, z2)
          IN /\ Len(zj1) = 2
             /\ zj1[1].type = "zone_entry" /\ zj1[2].type = "zone_entry"
             /\ zj1[1].ts # zj1[2].ts
             /\ zj2 # <<>> /\ zj2[Len(zj2)].type = "zone_exit"
             /\ Cardinality(UnclosedOf(built_sessions, z1)) = 1

\* the intervals of one zone among the intervals of a track, sorted by start
IntervalsOfZone(intervals, zone_id) ==
    SelectSeq(SortByTime(intervals), LAMBDA iv : iv[3] = zone_id)

\* the pairs of consecutive intervals of the zone that an interval of the
\* track in another zone keeps apart: it overlaps the gap [end, next start]
BlockedGaps(intervals, zone_id) ==
    LET own == IntervalsOfZone(intervals, zone_id) IN
    {k \in 1 .. (Len(own) - 1) :
        /\ own[k][2] <= own[k + 1][1]
        /\ \E i \in 1 .. Len(intervals) :
              /\ intervals[i][3] # zone_id
              /\ intervals[i][1] <= own[k + 1][1]
              /\ intervals[i][2] >= own[k][2]}

\* C31: merge_intervals never merges two intervals of a track in the same
\* zone when an interval of the track in another zone overlaps the gap
\* between them, wherever that interval starts: every such gap still parts
\* two intervals of the zone after the merge.
C31_NoIntervalMergeAcrossOtherZone ==
    build_pc = "built" =>
        \A tid \in DOMAIN built_intervals : \A zone_id \in pos_zone_ids :
            IntervalsOfZone(built_intervals[tid], zone_id) # <<>> =>
                Len(IntervalsOfZone(merged_intervals[tid], zone_id))
                    >= 1 + Cardinality(BlockedGaps(built_intervals[tid], zone_id))

(***************************************************************************)
(* main() of acc-group-eval.py on one journey whose events are listed in   *)
(* chronological order: build_raw_sessions, then merge_sessions.           *)
(***************************************************************************)
Chronological(events) ==
    \A i \in 1 .. (Len(events) - 1) : events[i].ts <= events[i + 1].ts

ChronoInit ==
    /\ BuildInit
    /\ Chronological(journey_events)

\* merged_sessions_by_person[pid] = merge_sessions(sessions, args.merge_gap_s)
MergeBuiltSessions ==
    /\ build_pc = "sessions"
    /\ merge_pc = "idle"
    /\ raw_sessions' = built_sessions
    /\ gap_s' \in 0 .. MaxGap
    /\ merged_sessions' = merge_sessions(built_sessions, gap_s')
    /\ merge_pc' = "merged"
    /\ UNCHANGED remerged_sessions
    /\ UNCHANGED build_vars
    /\ UNCHANGED <<replay_vars, group_vars, cand_vars, load_vars, who_vars, eval_vars, fn_vars>>

ChronoNext ==
    \/ BuildRawSessions
    \/ MergeBuiltSessions

\* session b covers session a of the same zone and starts no later
CoversFromBefore(b, a) ==
    /\ b[1] = a[1]
    /\ b[2] <= a[2]
    /\ (b[3] = NoneTs \/ (a[3] # NoneTs /\ a[3] <= b[3]))

\* C38: for sessions built by build_raw_sessions from a chronologically
\* ordered event list, merging never loses presence: every time covered by a
\* raw session in zone Z is covered by a session of zone Z in the output of
\* merge_sessions whose start is no later than the raw session's start, so
\* session_at on the merged sessions finds a session wherever it finds one on
\* the raw sessions, with a start no later.
C38_MergeKeepsPresence ==
    (build_pc = "sessions" /\ merge_pc = "merged") =>
        /\ \A i \in 1 .. Len(raw_sessions) :
              \E j \in 1 .. Len(merged_sessions) :
                  CoversFromBefore(merged_sessions[j], raw_sessions[i])
        /\ \A zone \in SessionZones : \A ts \in 0 .. (MaxSessionTs + 1) :
              session_at(raw_sessions, zone, ts) # NoSession =>
                  /\ session_at(merged_sessions, zone, ts) # NoSession
                  /\ session_at(merged_sessions, zone, ts)[1] <= session_at(raw_sessions, zone, ts)[1]

\* two raw sessions of a zone were merged into one that starts with the first
\* and lasts as long as the second
C38_Witness ==
    /\ build_pc = "sessions"
    /\ merge_pc = "merged"
    /\ \E i, k \in 1 .. Len(raw_sessions) : \E j \in 1 .. Len(merged_sessions) :
          /\ i < k
          /\ raw_sessions[i][1] = raw_sessions[k][1]
          /\ raw_sessions[i][3] # NoneTs
          /\ raw_sessions[i][3] < raw_sessions[k][2]
          /\ CoversFromBefore(merged_sessions[j], raw_sessions[i])
          /\ CoversFromBefore(merged_sessions[j], raw_sessions[k])

(***************************************************************************)
(* The Retrospective Matcher (acc-person2-review.py): merge_intervals and  *)
(* candidates_at.  An interval is the tuple (start, end, zone_id, closed). *)
(***************************************************************************)
CandTimes == 0 .. MaxCandTs
CandTracks == {1, 2}

\* the intervals build_intervals appends: start <= end, since it sorts the
\* events by time before pairing them
Intervals ==
    {iv \in CandTimes \X CandTimes \X pos_zone_ids \X BOOLEAN : iv[1] <= iv[2]}

\* intervals.sort(key=lambda x: x[0])
SortedByIntervalStart(s) == \A i \in 1 .. (Len(s) - 1) : s[i][1] <= s[i + 1][1]

\* the interval lists of one track, as merge_intervals leaves them: by start
IntervalLists ==
    UNION {{s \in [1 .. n -> Intervals] : SortedByIntervalStart(s)} : n \in 0 .. MaxIntervals}

IntervalCovers_NoExitGrace(iv, acc_time) ==
    IF iv[4] THEN iv[1] <= acc_time /\ acc_time <= iv[2]
    ELSE iv[1] <= acc_time /\ acc_time <= iv[1] + lookback_ms

\* the test candidates_at applies to an interval of the zone
IntervalCovers(iv, acc_time) ==
    IF iv[4] THEN iv[1] <= acc_time /\ acc_time <= iv[2] + review_exit_grace_ms
    ELSE iv[1] <= acc_time /\ acc_time <= iv[1] + lookback_ms

\* the inner loop of candidates_at over one track's intervals: appends tid at
\* the first interval of the zone that passes the test, then breaks
RECURSIVE ScanIntervals(_, _, _, _, _)
ScanIntervals(candidates, tid, intervals, zone_id, acc_time) ==
    IF intervals = <<>> THEN candidates
    ELSE IF Head(intervals)[3] # zone_id
         THEN ScanIntervals(candidates, tid, Tail(intervals), zone_id, acc_time)
    ELSE IF IntervalCovers(Head(intervals), acc_time)
         THEN Append(candidates, tid)
    ELSE ScanIntervals(candidates, tid, Tail(intervals), zone_id, acc_time)

CandInit ==
    /\ NotCandIdle
    /\ cand_zone \in pos_zone_ids
    /\ cand_time \in 0 .. (MaxCandTs + 1)
    /\ cand_item = <<>>
    /\ cand_seen = {}
    /\ cand_result = <<>>
    /\ cand_pc = "loop"

\* "for tid, intervals in merged_by_track.items()": the next item of the dict
CandNextTrack ==
    /\ cand_pc = "loop"
    /\ cand_item = <<>>
    /\ \E tid \in CandTracks \ cand_seen : \E intervals \in IntervalLists :
          cand_item' = <<tid, intervals>>
    /\ UNCHANGED <<cand_seen, cand_zone, cand_time, cand_result, cand_pc>>
    /\ UNCHANGED not_cand_vars

\* "for start, end, zid, closed in intervals": the scan of that item
CandScanTrack ==
    /\ cand_pc = "loop"
    /\ cand_item # <<>>
    /\ cand_result' = ScanIntervals(cand_result, cand_item[1], cand_item[2], cand_zone, cand_time)
    /\ cand_seen' = cand_seen \cup {cand_item[1]}
    /\ cand_item' = <<>>
    /\ UNCHANGED <<cand_zone, cand_time, cand_pc>>
    /\ UNCHANGED not_cand_vars

\* the dict is exhausted (it may hold any subset of the tracks): return candidates
CandReturn ==
    /\ cand_pc = "loop"
    /\ cand_item = <<>>
    /\ cand_pc' = "returned"
    /\ UNCHANGED <<cand_item, cand_seen, cand_zone, cand_time, cand_result>>
    /\ UNCHANGED not_cand_vars

CandNext ==
    \/ CandNextTrack
    \/ CandScanTrack
    \/ CandReturn

(***************************************************************************)
(* Claims about the Retrospective Matcher.                                 *)
(***************************************************************************)
\* the claim's condition on a track's merged intervals
HasCoveringInterval(intervals, zone, T) ==
    \E i \in 1 .. Len(intervals) :
        LET start == intervals[i][1]
            end == intervals[i][2]
            closed == intervals[i][4]
        IN /\ intervals[i][3] = zone
           /\ start <= T
           /\ \/ closed /\ T <= end + review_exit_grace_ms
              \/ ~closed /\ T <= start + lookback_ms

CountOf(s, x) == Cardinality({i \in 1 .. Len(s) : s[i] = x})

\* C13: candidates_at(zone, T, ...) returns exactly the track ids that have at
\* least one merged interval in that zone with start <= T <= end +
\* exit_grace_ms when the interval is closed, or start <= T <= start +
\* lookback_ms when it is open; each track id appears at most once.  Stated
\* on every scan of a track: the track is appended once iff it has such an
\* interval, and nothing else changes in the list.
C13_CandidatesAt ==
    [][(cand_pc = "loop" /\ cand_item # <<>>) =>
          /\ cand_result' = IF HasCoveringInterval(cand_item[2], cand_zone, cand_time)
                            THEN Append(cand_result, cand_item[1])
                            ELSE cand_result
          /\ \A tid \in CandTracks : CountOf(cand_result', tid) <= 1
          /\ \A tid \in CandTracks : CountOf(cand_result', tid) = 1 => tid \in cand_seen']_vars

\* one track has been appended and the scan is at a track with two covering
\* intervals, a closed one reached only through the exit grace and an open one
C13_Witness ==
    /\ cand_pc = "loop"
    /\ cand_item # <<>>
    /\ Len(cand_result) = 1
    /\ \E i, j \in 1 .. Len(cand_item[2]) :
          LET a == cand_item[2][i]
              b == cand_item[2][j]
          IN /\ i < j
             /\ a[3] = cand_zone /\ a[4] /\ a[1] <= cand_time /\ cand_time = a[2] + review_exit_grace_ms
             /\ b[3] = cand_zone /\ ~b[4] /\ b[1] <= cand_time /\ cand_time <= b[1] + lookback_ms

(***************************************************************************)
(* Log loaders (acc-replay-analysis.py stream_xovis_zone_events and        *)
(* load_acc_events, acc-person2-review.py load_zone_events).  A line is    *)
(* described by what the loader's parsing steps find in it:                *)
(*   text     "blank", "malformed" (not JSON), "array" (JSON, not an       *)
(*            object) or "object"                                          *)
(*   ts_recv  "absent", "unparseable" (not ISO 8601) or "valid", with its  *)
(*            time in recv_ms                                              *)
(*   payload  payload_raw: "absent", "malformed" (not JSON), "array" (JSON,*)
(*            not an object), "no_event" (an object with no usable zone    *)
(*            event) or "event" (one frame, of time frame_time, with one   *)
(*            ZONE_ENTRY of track 1 at geometry 1)                         *)
(***************************************************************************)
Loaders == {"stream_xovis_zone_events", "load_acc_events", "load_zone_events"}
LoadTimes == 0 .. MaxLoadTs

LogLine(text, ts_recv, recv_ms, payload, frame_time) ==
    [text |-> text, ts_recv |-> ts_recv, recv_ms |-> recv_ms,
     payload |-> payload, frame_time |-> frame_time]

TsRecvChoices ==
    {<<"absent", 0>>, <<"unparseable", 0>>} \cup {<<"valid", t>> : t \in LoadTimes}
PayloadChoices ==
    {<<p, 0>> : p \in {"absent", "malformed", "array", "no_event"}}
        \cup {<<"event", t>> : t \in LoadTimes}

LogLines ==
    {LogLine(text, "absent", 0, "absent", 0) : text \in {"blank", "malformed", "array"}}
        \cup {LogLine("object", ts[1], ts[2], pl[1], pl[2]) :
                 ts \in TsRecvChoices, pl \in PayloadChoices}

LogFiles == UNION {[1 .. n -> LogLines] : n \in 0 .. MaxLines}

\* the payload part of the two sensor loaders: "payload = rec.get(...)" to
\* the append/yield
ReadPayload(line) ==
    IF line.payload = "absent" THEN "skip"          \* if not payload: continue
    ELSE IF line.payload = "malformed" THEN "skip"  \* except Exception: continue
    ELSE IF line.payload = "array" THEN "raise"     \* parsed.get on a non-object
    ELSE IF line.payload = "no_event" THEN "skip"
    ELSE "event"

\* what the body of "for line in f" does with a line: "skip" (continue),
\* "raise" (an exception leaves the loader) or "event" (an event is loaded)
ReadLine(fn, line) ==
    IF line.text = "blank" THEN "skip"              \* if not line: continue
    ELSE IF line.text = "malformed" THEN "raise"    \* rec = json.loads(line)
    ELSE IF line.text = "array" THEN "raise"        \* rec.get on a non-object
    ELSE IF fn = "load_acc_events"
         THEN IF line.ts_recv = "absent" THEN "skip"
              ELSE IF line.ts_recv = "unparseable" THEN "raise"   \* parse_ts
              ELSE "event"
    ELSE IF fn = "load_zone_events" /\ line.ts_recv = "unparseable"
         THEN "raise"                               \* parse_ts(ts_recv)
    ELSE ReadPayload(line)

\* the event a line gives
LoadedEvent(fn, line) ==
    IF fn = "load_acc_events"
    THEN [ts_ms |-> line.recv_ms, source |-> "acc", event_type |-> "ACC",
          track_id |-> 0, zone_id |-> 0]
    ELSE IF fn = "stream_xovis_zone_events"
    THEN [ts_ms |-> line.frame_time, source |-> "xovis", event_type |-> "ZONE_ENTRY",
          track_id |-> 1, zone_id |-> 1]
    ELSE <<IF line.ts_recv = "valid" THEN line.recv_ms ELSE NoneTs,
           line.frame_time, "ZONE_ENTRY", 1, 1>>

\* sorted(events, key=lambda e: e.ts_ms): stable
RECURSIVE InsertByTsMs(_, _)
InsertByTsMs(sorted_events, e) ==
    IF sorted_events = <<>> THEN <<e>>
    ELSE IF sorted_events[Len(sorted_events)].ts_ms <= e.ts_ms
         THEN Append(sorted_events, e)
         ELSE Append(InsertByTsMs(SubSeq(sorted_events, 1, Len(sorted_events) - 1), e),
                     sorted_events[Len(sorted_events)])

RECURSIVE SortByTsMs(_)
SortByTsMs(events) ==
    IF events = <<>> THEN <<>>
    ELSE InsertByTsMs(SortByTsMs(SubSeq(events, 1, Len(events) - 1)), events[Len(events)])

LoadInit ==
    /\ NotLoadIdle
    /\ load_fn \in Loaders
    /\ load_lines \in LogFiles
    /\ load_i = 0
    /\ loaded = <<>>
    /\ load_pc = "reading"

\* the line the loop is about to read
LoadHead == load_lines[load_i + 1]

LoadCanRead == load_pc = "reading" /\ load_i < Len(load_lines)

\* the line is left by a continue
LoadSkipLine ==
    /\ LoadCanRead
    /\ ReadLine(load_fn, LoadHead) = "skip"
    /\ load_i' = load_i + 1
    /\ UNCHANGED <<load_fn, load_lines, loaded, load_pc>>
    /\ UNCHANGED not_load_vars

\* the line gives an event
LoadAppendEvent ==
    /\ LoadCanRead
    /\ ReadLine(load_fn, LoadHead) = "event"
    /\ load_i' = load_i + 1
    /\ loaded' = Append(loaded, LoadedEvent(load_fn, LoadHead))
    /\ UNCHANGED <<load_fn, load_lines, load_pc>>
    /\ UNCHANGED not_load_vars

\* an exception leaves the loader: no caller catches it, the run ends
LoadRaise ==
    /\ LoadCanRead
    /\ ReadLine(load_fn, LoadHead) = "raise"
    /\ load_pc' = "raised"
    /\ UNCHANGED <<load_fn, load_lines, load_i, loaded>>
    /\ UNCHANGED not_load_vars

\* the end of the file: load_acc_events returns its events sorted by ts_ms
LoadReturn ==
    /\ load_pc = "reading"
    /\ load_i = Len(load_lines)
    /\ load_pc' = "done"
    /\ loaded' = IF load_fn = "load_acc_events" THEN SortByTsMs(loaded) ELSE loaded
    /\ UNCHANGED <<load_fn, load_lines, load_i>>
    /\ UNCHANGED not_load_vars

LoadNext ==
    \/ LoadSkipLine
    \/ LoadAppendEvent
    \/ LoadRaise
    \/ LoadReturn

(***************************************************************************)
(* Claims about the log loaders.                                           *)
(***************************************************************************)
\* C16: whatever lines the sensor log or the payment log holds, malformed
\* and unparseable ones included, no loader is left by an exception: every
\* line is either loaded or skipped.
C16_MalformedLinesNeverAbort == load_pc # "raised"

(***************************************************************************)
(* The who-was-there review of acc-person2-review.py: the candidates of a  *)
(* payment from the sensor events received by the payment's time (initial) *)
(* and by the payment's time plus grace_ms (corrected).  A sensor event is  *)
(* the tuple <<recv_ms, frame_ms, etype, track_id, zone_id>> of            *)
(* load_zone_events; recv_ms is None for a line without ts_recv.           *)
(***************************************************************************)
\* a person track and the first group track
WhoTracks == {1, GROUP_ID_BASE}
WhoTimes == 0 .. MaxWhoTs

\* receive times around the two cutoffs of a payment at acc_time: unknown, at
\* the payment's time, at the end of the grace window, and after it
RecvChoices(acc_time) == {NoneTs, acc_time, acc_time + grace_ms, acc_time + grace_ms + 1}

WhoEvents(acc_time) ==
    {<<recv_ms, frame_ms, etype, track_id, pos_name_to_zone_id["POS_1"]>> :
        recv_ms \in RecvChoices(acc_time), frame_ms \in WhoTimes,
        etype \in {"ZONE_ENTRY", "ZONE_EXIT"}, track_id \in WhoTracks}

WhoEventLists(acc_time) == UNION {[1 .. n -> WhoEvents(acc_time)] : n \in 0 .. MaxWhoEvents}

\* mutant: the cutoff is ignored
filter_zone_events_NoCutoff(zone_events, cutoff_ms) ==
    [i \in 1 .. Len(zone_events) |->
        <<zone_events[i][2], zone_events[i][3], zone_events[i][4], zone_events[i][5]>>]

filter_zone_events(zone_events, cutoff_ms) ==
    LET filtered == SelectSeq(zone_events, LAMBDA e : ~(e[1] # NoneTs /\ e[1] > cutoff_ms))
    IN [i \in 1 .. Len(filtered) |->
           <<filtered[i][2], filtered[i][3], filtered[i][4], filtered[i][5]>>]

\* mutant: group tracks are kept
merged_by_track_for_KeepGroups(zone_events, cutoff_ms) ==
    LET filtered == filter_zone_events(zone_events, cutoff_ms)
        intervals_by_track == build_intervals(filtered)
    IN [tid \in DOMAIN intervals_by_track |->
           merge_intervals(intervals_by_track[tid], merge_window_ms)]

\* merged_by_track of merged_by_track_for(cutoff_ms): group tracks are left out
merged_by_track_for(zone_events, cutoff_ms) ==
    LET filtered == filter_zone_events(zone_events, cutoff_ms)
        intervals_by_track == build_intervals(filtered)
    IN [tid \in {t \in DOMAIN intervals_by_track : ~(t >= GROUP_ID_BASE)} |->
           merge_intervals(intervals_by_track[tid], merge_window_ms)]

\* the set of the track ids candidates_at returns
candidates_at(zone_id, acc_time, merged_by_track) ==
    {tid \in DOMAIN merged_by_track :
        ScanIntervals(<<>>, tid, merged_by_track[tid], zone_id, acc_time) # <<>>}

\* cands_initial and cands_corrected of a payment at acc_time
CandsInitial(zone_events, zone_id, acc_time) ==
    candidates_at(zone_id, acc_time, merged_by_track_for(zone_events, acc_time))
CandsCorrected(zone_events, zone_id, acc_time) ==
    candidates_at(zone_id, acc_time, merged_by_track_for(zone_events, acc_time + grace_ms))

WhoInit ==
    /\ NotWhoIdle
    /\ who_zone = pos_name_to_zone_id["POS_1"]
    /\ who_time \in WhoTimes
    /\ who_zone_events \in WhoEventLists(who_time)
    /\ cands_initial = {}
    /\ cands_corrected = {}
    /\ who_pc = "loaded"

\* the who mode of main: both candidate sets of the payment
WhoCandidates ==
    /\ who_pc = "loaded"
    /\ cands_initial' = CandsInitial(who_zone_events, who_zone, who_time)
    /\ cands_corrected' = CandsCorrected(who_zone_events, who_zone, who_time)
    /\ who_pc' = "reported"
    /\ UNCHANGED <<who_zone_events, who_zone, who_time>>
    /\ UNCHANGED not_who_vars

\* the sensor event was received after the payment's time
ReceivedLate(e) == e[1] # NoneTs /\ e[1] > who_time

\* the review run again on the log with one more event received late
RerunWithLateEvent ==
    /\ who_pc = "reported"
    /\ Len(who_zone_events) < MaxWhoEvents
    /\ \E e \in {x \in WhoEvents(who_time) : ReceivedLate(x)} :
       \E k \in 0 .. Len(who_zone_events) :
          who_zone_events' = SubSeq(who_zone_events, 1, k) \o <<e>>
                                \o SubSeq(who_zone_events, k + 1, Len(who_zone_events))
    /\ cands_initial' = CandsInitial(who_zone_events', who_zone, who_time)
    /\ cands_corrected' = CandsCorrected(who_zone_events', who_zone, who_time)
    /\ UNCHANGED <<who_zone, who_time, who_pc>>
    /\ UNCHANGED not_who_vars

\* the review run again on the log without one of the events received late
RerunWithoutLateEvent ==
    /\ who_pc = "reported"
    /\ \E k \in 1 .. Len(who_zone_events) :
          /\ ReceivedLate(who_zone_events[k])
          /\ who_zone_events' = SubSeq(who_zone_events, 1, k - 1)
                                   \o SubSeq(who_zone_events, k + 1, Len(who_zone_events))
    /\ cands_initial' = CandsInitial(who_zone_events', who_zone, who_time)
    /\ cands_corrected' = CandsCorrected(who_zone_events', who_zone, who_time)
    /\ UNCHANGED <<who_zone, who_time, who_pc>>
    /\ UNCHANGED not_who_vars

WhoNext ==
    \/ WhoCandidates
    \/ RerunWithLateEvent
    \/ RerunWithoutLateEvent

(***************************************************************************)
(* Claims about the who-was-there review.                                  *)
(***************************************************************************)
\* the events of the log that were not received after the cutoff
NotReceivedAfter(zone_events, cutoff_ms) ==
    SelectSeq(zone_events, LAMBDA e : e[1] = NoneTs \/ e[1] <= cutoff_ms)

\* C24: the initial candidate set of a payment received at T depends only on
\* the sensor events received by T, and the corrected set only on those
\* received by T + grace_ms: a run on a log that differs only in events
\* received after the cutoff gives the same set.
C24_CandidatesIgnoreLaterEvents ==
    [][(who_pc = "reported" /\ who_pc' = "reported") =>
          /\ NotReceivedAfter(who_zone_events', who_time)
                 = NotReceivedAfter(who_zone_events, who_time)
             => cands_initial' = cands_initial
          /\ NotReceivedAfter(who_zone_events', who_time + grace_ms)
                 = NotReceivedAfter(who_zone_events, who_time + grace_ms)
             => cands_corrected' = cands_corrected]_vars

\* a reported payment whose corrected set differs from its initial set, on a
\* log with an event received after the grace window that would change the
\* corrected set if it were taken in
C24_Witness ==
    /\ who_pc = "reported"
    /\ cands_initial # cands_corrected
    /\ \E k \in 1 .. Len(who_zone_events) : who_zone_events[k][1] > who_time + grace_ms
    /\ candidates_at(who_zone, who_time,
                     merged_by_track_for(who_zone_events, who_time + grace_ms + 1))
          # cands_corrected

(***************************************************************************)
(* Group tracks in the two matchers: the review of acc-person2-review.py   *)
(* and the replay of acc-replay-analysis.py, each run on a log that holds  *)
(* a group track.                                                          *)
(***************************************************************************)
\* either script is run on its log
TracksInit ==
    \/ WhoInit
    \/ CrowdInit

TracksNext ==
    \/ WhoNext
    \/ ReplayNext

\* the tracks with an ENTRY to z among consumed[1..k] not followed by an EXIT
\* from z, group tracks included
CrowdInside(k, z) ==
    {p \in CrowdTracks : \E i \in 1 .. k :
        /\ IsEntry(consumed[i], p, z)
        /\ \A j \in (i + 1) .. k : ~IsExit(consumed[j], p, z)}

\* C39: the Retrospective Matcher never reports a group track: no id from
\* GROUP_ID_BASE on is in the initial or the corrected candidate set of a
\* payment; the Occupancy Replayer keeps group-track ids in occupancy and in
\* candidates like any other id.
C39_GroupTracksFilteredOnlyInReview ==
    /\ \A tid \in cands_initial \cup cands_corrected : tid < GROUP_ID_BASE
    /\ \A z \in pos_zone_ids : occupancy[z] = CrowdInside(Len(consumed), z)
    /\ \A n \in 1 .. Len(results) :
          Range(results[n].candidates) = CrowdInside(PositionOf(results[n]) - 1, results[n].zone_id)

\* the review reported the person track alone for a payment although a group
\* track had entered the zone in the same frame, both received in time
C39_Witness ==
    /\ who_pc = "reported"
    /\ cands_initial = {1}
    /\ cands_corrected = {1}
    /\ \E k, l \in 1 .. Len(who_zone_events) :
          /\ who_zone_events[k][4] = 1
          /\ who_zone_events[l][4] >= GROUP_ID_BASE
          /\ \A i \in {k, l} :
                /\ who_zone_events[i][3] = "ZONE_ENTRY"
                /\ who_zone_events[i][2] <= who_time
                /\ who_zone_events[i][1] <= who_time
          /\ who_zone_events[k][2] = who_zone_events[l][2]

\* the replay reported a group track among the candidates of a payment
GroupTrackIsCandidate ==
    \E n \in 1 .. Len(results) : \E p \in Range(results[n].candidates) : p >= GROUP_ID_BASE

(***************************************************************************)
(* The grouping variants of acc-group-eval.py: build_zone_sessions,        *)
(* active_in_zone, evaluate_variant and the part of main that runs the     *)
(* four variants.  The persons of the export are 1 .. 3, in the order of   *)
(* the journeys dict; a payment is the dict extract_acc_events makes, with *)
(* its key (ts, zone, kiosk).                                              *)
(***************************************************************************)
EvalPersons == <<1, 2, 3>>

\* an optional argument left at None
NoneArg == -1

\* one entry of acc_events
AccOf(ts, zone) == [key |-> <<ts, zone, "kiosk_1">>, ts |-> ts, zone |-> zone]

\* the payments of the export: one payment at POS_1, with or without a
\* parseable timestamp
AccEventChoices == {<<AccOf(ts, "POS_1")>> : ts \in SessionTimes \cup {NoneTs}}

\* --min-dwell-ms, --entry-spread-s, --other-pos-window-s, --other-pos-min-s
\* and --merge-gap-s, scaled to the model's timestamps
EvalArgsChoices ==
    [min_dwell_ms : MinDwellChoices, entry_spread_s : EntrySpreadChoices,
     other_pos_window_s : {1}, other_pos_min_s : OtherPosMinChoices,
     merge_gap_s : MergeGapChoices]

\* zone_sessions[zone] of build_zone_sessions: (start, end, pid) of the
\* sessions of the zone, person after person
RECURSIVE ZoneSessionsUpTo(_, _, _)
ZoneSessionsUpTo(sessions_by_person, zone, k) ==
    IF k = 0 THEN <<>>
    ELSE LET pid == EvalPersons[k]
             own == SelectSeq(sessions_by_person[pid], LAMBDA s : s[1] = zone)
         IN ZoneSessionsUpTo(sessions_by_person, zone, k - 1)
                \o [i \in 1 .. Len(own) |-> <<own[i][2], own[i][3], pid>>]

build_zone_sessions(sessions_by_person) ==
    [zone \in SessionZones |->
        ZoneSessionsUpTo(sessions_by_person, zone, Len(EvalPersons))]

\* (pid, start, end) of the sessions of the zone that cover ts
active_in_zone(zone_sessions, zone, ts) ==
    LET covering == SelectSeq(zone_sessions[zone],
                              LAMBDA s : ts >= s[1] /\ (s[2] = NoneTs \/ ts <= s[2]))
    IN [i \in 1 .. Len(covering) |-> <<covering[i][3], covering[i][1], covering[i][2]>>]

\* other_pos_duration_s of acc-group-eval.py: seconds of other-zone sessions
\* inside the window [ts - window_s, ts + window_s]
RECURSIVE eval_other_pos_duration_s(_, _, _, _)
eval_other_pos_duration_s(sessions, zone, ts, window_s) ==
    IF sessions = <<>> THEN 0
    ELSE LET s == Head(sessions)
             window_start == ts - window_s
             window_end == ts + window_s
             session_end == IF s[3] = NoneTs THEN window_end ELSE s[3]
             overlap_start == Max({s[2], window_start})
             overlap_end == Min({session_end, window_end})
             rest == eval_other_pos_duration_s(Tail(sessions), zone, ts, window_s)
         IN IF s[1] # zone /\ overlap_end > overlap_start
            THEN (overlap_end - overlap_start) + rest
            ELSE rest

\* "Find candidates: present, sufficient dwell, no other POS activity":
\* (pid, start) of the active sessions the loop keeps
VariantCandidates(acc, zone_sessions, sessions_by_person, min_dwell_ms, other_pos_window_s, other_pos_min_s) ==
    LET kept == SelectSeq(active_in_zone(zone_sessions, acc.zone, acc.ts),
                    LAMBDA a :
                        /\ (acc.ts - a[2]) * 1000 >= min_dwell_ms
                        /\ ~(/\ other_pos_window_s # NoneArg
                             /\ other_pos_active(
                                    eval_other_pos_duration_s(sessions_by_person[a[1]],
                                        acc.zone, acc.ts, other_pos_window_s),
                                    other_pos_min_s)))
    IN [i \in 1 .. Len(kept) |-> <<kept[i][1], kept[i][2]>>]

\* the body of "for key, acc in acc_events.items()" decides that the payment
\* is a group
VariantAccepts(acc, zone_sessions, sessions_by_person, min_dwell_ms, entry_spread_s, other_pos_window_s, other_pos_min_s) ==
    LET candidates == VariantCandidates(acc, zone_sessions, sessions_by_person,
                                        min_dwell_ms, other_pos_window_s, other_pos_min_s)
        entry_times == {candidates[i][2] : i \in 1 .. Len(candidates)}
    IN /\ acc.ts # NoneTs
       /\ Len(candidates) >= 2
       /\ entry_spread_s # NoneArg => Max(entry_times) - Min(entry_times) <= entry_spread_s

evaluate_variant(name, variant_acc_events, zone_sessions, sessions_by_person, min_dwell_ms, entry_spread_s, other_pos_window_s, other_pos_min_s) ==
    LET accepted == {i \in 1 .. Len(variant_acc_events) :
                        VariantAccepts(variant_acc_events[i], zone_sessions,
                                       sessions_by_person, min_dwell_ms, entry_spread_s,
                                       other_pos_window_s, other_pos_min_s)}
        members_of(i) ==
            LET candidates == VariantCandidates(variant_acc_events[i], zone_sessions,
                                  sessions_by_person, min_dwell_ms,
                                  other_pos_window_s, other_pos_min_s)
            IN sorted([c \in 1 .. Len(candidates) |-> candidates[c][1]])
        group_members == {<<variant_acc_events[i].key, members_of(i)>> : i \in accepted}
    IN [name |-> name,
        group_keys |-> {variant_acc_events[i].key : i \in accepted},
        group_members |-> group_members,
        size_hist |-> {<<n, Cardinality({g \in group_members : Len(g[2]) = n})>> :
                          n \in {Len(g[2]) : g \in group_members}}]

\* the calls of evaluate_variant in "tests = [...]" of main, in order
VariantCall(k) ==
    IF k = 1
    THEN evaluate_variant("test_b_present_dwell", eval_acc_events,
             build_zone_sessions(raw_sessions_by_person), raw_sessions_by_person,
             eval_args.min_dwell_ms, NoneArg, NoneArg, 0)
    ELSE IF k = 2
    THEN evaluate_variant("test_c_entry_spread", eval_acc_events,
             build_zone_sessions(raw_sessions_by_person), raw_sessions_by_person,
             eval_args.min_dwell_ms, eval_args.entry_spread_s, NoneArg, 0)
    ELSE IF k = 3
    THEN evaluate_variant("test_d_focus", eval_acc_events,
             build_zone_sessions(raw_sessions_by_person), raw_sessions_by_person,
             eval_args.min_dwell_ms, eval_args.entry_spread_s,
             eval_args.other_pos_window_s, eval_args.other_pos_min_s)
    ELSE evaluate_variant("test_e_flicker_merge", eval_acc_events,
             build_zone_sessions(merged_sessions_by_person), merged_sessions_by_person,
             eval_args.min_dwell_ms, eval_args.entry_spread_s,
             eval_args.other_pos_window_s, eval_args.other_pos_min_s)

VariantCount == 4

EvalInit ==
    /\ NotEvalIdle
    /\ eval_acc_events \in AccEventChoices
    /\ eval_args \in EvalArgsChoices
    \* the first person has up to MaxMemberSessions sessions, the others at
    \* most one
    /\ raw_sessions_by_person
          \in MemberSessionLists \X ShortSessionLists \X ShortSessionLists
    /\ merged_sessions_by_person = <<>>
    /\ tests = <<>>
    /\ eval_pc = "sessions"

\* main: merged_sessions_by_person from the raw sessions
EvalMergeSessions ==
    /\ eval_pc = "sessions"
    /\ merged_sessions_by_person' =
          [k \in 1 .. Len(raw_sessions_by_person) |->
              merge_sessions(raw_sessions_by_person[k], eval_args.merge_gap_s)]
    /\ eval_pc' = "variants"
    /\ UNCHANGED <<eval_acc_events, eval_args, raw_sessions_by_person, tests>>
    /\ UNCHANGED not_eval_vars

\* main: the next call of evaluate_variant in the list of tests
EvaluateVariant ==
    /\ eval_pc = "variants"
    /\ tests' = Append(tests, VariantCall(Len(tests) + 1))
    /\ eval_pc' = IF Len(tests) + 1 = VariantCount THEN "done" ELSE "variants"
    /\ UNCHANGED <<eval_acc_events, eval_args, raw_sessions_by_person,
                   merged_sessions_by_person>>
    /\ UNCHANGED not_eval_vars

EvalNext ==
    \/ EvalMergeSessions
    \/ EvaluateVariant

(***************************************************************************)
(* Claims about the grouping variants.                                     *)
(***************************************************************************)
\* the group set of the variant of that name
GroupKeysOf(name) ==
    UNION {tests[k].group_keys : k \in {i \in 1 .. Len(tests) : tests[i].name = name}}

\* C30: the variants are nested for every payment key: a key in the group
\* set of test_d_focus is in the group set of test_c_entry_spread, and a key
\* in the group set of test_c_entry_spread is in the group set of
\* test_b_present_dwell.
C30_VariantsNested ==
    eval_pc = "done" =>
        /\ GroupKeysOf("test_d_focus") \subseteq GroupKeysOf("test_c_entry_spread")
        /\ GroupKeysOf("test_c_entry_spread") \subseteq GroupKeysOf("test_b_present_dwell")

(***************************************************************************)
(* sessions_overlap (acc-group-eval.py) and the trailing-window            *)
(* other_pos_duration_s (acc-exit-window-report.py, acc-group-diff.py)     *)
(* called on their own.  A range is (start, end) with start <= end or      *)
(* end = None.                                                             *)
(***************************************************************************)
FnTimes == 0 .. (MaxSessionTs + 1)

Ranges == {r \in FnTimes \X (FnTimes \cup {NoneTs}) : r[2] = NoneTs \/ r[1] <= r[2]}

FnInit ==
    /\ NotFnIdle
    /\ \/ /\ fn_name = "sessions_overlap"
          /\ \E r1, r2 \in Ranges : fn_args = <<r1[1], r1[2], r2[1], r2[2]>>
       \/ /\ fn_name = "other_pos_duration_s"
          /\ fn_args \in MemberSessionLists \X AccZones \X FnTimes \X OtherPosWindowChoices
    /\ fn_result = <<>>
    /\ fn_pc = "called"

\* sessions_overlap(start1, end1, start2, end2) returns
CallSessionsOverlap ==
    /\ fn_pc = "called"
    /\ fn_name = "sessions_overlap"
    /\ fn_result' = sessions_overlap(fn_args[1], fn_args[2], fn_args[3], fn_args[4])
    /\ fn_pc' = "returned"
    /\ UNCHANGED <<fn_name, fn_args>>
    /\ UNCHANGED not_fn_vars

\* other_pos_duration_s(sessions, zone, ts, window_s) returns
CallOtherPosDuration ==
    /\ fn_pc = "called"
    /\ fn_name = "other_pos_duration_s"
    /\ fn_result' = other_pos_duration_s(fn_args[1], fn_args[2], fn_args[3], fn_args[4])
    /\ fn_pc' = "returned"
    /\ UNCHANGED <<fn_name, fn_args>>
    /\ UNCHANGED not_fn_vars

FnNext ==
    \/ CallSessionsOverlap
    \/ CallOtherPosDuration

(***************************************************************************)
(* Claims about the interval functions.                                    *)
(***************************************************************************)
\* instant t lies in the range [start, end], a None end read as +infinity
InRange(t, start, end) == start <= t /\ (end = NoneTs \/ t <= end)

\* the two ranges share an instant; if they do, they share the later start
SharesInstant(start1, end1, start2, end2) ==
    \E t \in {start1, start2} : InRange(t, start1, end1) /\ InRange(t, start2, end2)

\* C33: sessions_overlap(s1, e1, s2, e2) is the closed-interval intersection
\* test with a None end read as +infinity, for every combination of open and
\* closed ends, and gives the same answer when the two ranges are swapped.
C33_OverlapIsClosedIntersection ==
    (fn_pc = "returned" /\ fn_name = "sessions_overlap") =>
        /\ fn_result = SharesInstant(fn_args[1], fn_args[2], fn_args[3], fn_args[4])
        /\ fn_result = sessions_overlap(fn_args[3], fn_args[4], fn_args[1], fn_args[2])

\* an open first range was found to overlap a closed second range that ends
\* at its start
C33_Witness ==
    /\ fn_pc = "returned"
    /\ fn_name = "sessions_overlap"
    /\ fn_args[2] = NoneTs
    /\ fn_args[4] = fn_args[1]
    /\ fn_args[3] < fn_args[4]
    /\ fn_result = TRUE

\* the seconds [u, u + 1] of the window [ts - window_s, ts] that the i-th
\* session spends in a zone other than the payment's, an open session lasting
\* until ts
SecondsElsewhere(sessions, zone, ts, window_s) ==
    {iu \in (1 .. Len(sessions)) \X ((ts - window_s) .. (ts - 1)) :
        /\ sessions[iu[1]][1] # zone
        /\ sessions[iu[1]][2] <= iu[2]
        /\ (sessions[iu[1]][3] = NoneTs \/ iu[2] + 1 <= sessions[iu[1]][3])}

\* C34: the trailing-window other_pos_duration_s returns the sum, over the
\* member's sessions in zones other than the payment zone, of the length of
\* their overlap with [ts - window_s, ts], an open session lasting until ts;
\* a session that starts at or after ts and a session in the payment zone
\* contribute 0.
C34_TrailingWindowDuration ==
    (fn_pc = "returned" /\ fn_name = "other_pos_duration_s") =>
        LET sessions == fn_args[1]
            zone == fn_args[2]
            ts == fn_args[3]
        IN /\ fn_result = Cardinality(SecondsElsewhere(sessions, zone, ts, fn_args[4]))
           /\ (\A i \in 1 .. Len(sessions) : sessions[i][1] = zone \/ sessions[i][2] >= ts)
                 => fn_result = 0

\* the call returned the time of an open session of another zone that began
\* before the window, beside a session of the payment zone inside the window
C34_Witness ==
    /\ fn_pc = "returned"
    /\ fn_name = "other_pos_duration_s"
    /\ fn_result = fn_args[4]
    /\ \E i, j \in 1 .. Len(fn_args[1]) :
          /\ fn_args[1][i][1] # fn_args[2]
          /\ fn_args[1][i][3] = NoneTs
          /\ fn_args[1][i][2] < fn_args[3] - fn_args[4]
          /\ fn_args[1][j][1] = fn_args[2]
          /\ fn_args[1][j][2] < fn_args[3]

Init == ReplayInit
Next == ReplayNext
Spec == Init /\ [][Next]_vars

SpecMerge == MergeInit /\ [][MergeNext]_vars

SpecGroup == GroupInit /\ [][GroupNext]_vars

SpecBuild == BuildInit /\ [][BuildNext]_vars

SpecCand == CandInit /\ [][CandNext]_vars

SpecLoad == LoadInit /\ [][LoadNext]_vars

SpecWho == WhoInit /\ [][WhoNext]_vars

SpecEval == EvalInit /\ [][EvalNext]_vars

SpecCrowd == CrowdInit /\ [][ReplayNext]_vars

SpecQuiet == QuietInit /\ [][ReplayNext]_vars

SpecChrono == ChronoInit /\ [][ChronoNext]_vars

SpecTracks == TracksInit /\ [][TracksNext]_vars

SpecFn == FnInit /\ [][FnNext]_vars

====
